---- MODULE Spec2Model ----
(***************************************************************************)
(* Model of the rats back-end (src-tauri/src): one DuckDB connection       *)
(* behind a std::sync::Mutex (AppState.db), and the tauri commands that    *)
(* lock it and send SQL text to it.                                        *)
(*                                                                         *)
(* Text is modelled as a sequence of characters; a character is a string   *)
(* atom ("a", "_", "U+00E9").  An SQL statement is modelled by the verb    *)
(* and by the caller-supplied pieces that format!() pasted into it, each   *)
(* with the quoting the format string gives it.  The engine (DuckDB, an    *)
(* external library) is modelled by a catalog of tables and views.         *)
(***************************************************************************)
EXTENDS Integers, Sequences, FiniteSets, TLC

\* ------------------------------------------------------------------------
\* Bounds of the model
\* ------------------------------------------------------------------------
NumWorkers == 2
MaxNameLen == 3

\* ------------------------------------------------------------------------
\* Characters and text
\* ------------------------------------------------------------------------
AsciiLower ==
  {"a","b","c","d","e","f","g","h","i","j","k","l","m",
   "n","o","p","q","r","s","t","u","v","w","x","y","z"}

AsciiUpper ==
  {"A","B","C","D","E","F","G","H","I","J","K","L","M",
   "N","O","P","Q","R","S","T","U","V","W","X","Y","Z"}

AsciiDigit == {"0","1","2","3","4","5","6","7","8","9"}

\* U+00E9 (e with acute) is alphabetic, U+0663 (Arabic-Indic digit three)
\* is numeric: char::is_alphanumeric is true of both.
UnicodeAlnum == {"U+00E9", "U+0663"}

\* The characters [A-Za-z0-9_]
IdentChars == AsciiLower \cup AsciiUpper \cup AsciiDigit \cup {"_"}

RECURSIVE SeqMap(_, _)
SeqMap(Op(_), s) ==
  IF s = <<>> THEN <<>> ELSE <<Op(Head(s))>> \o SeqMap(Op, Tail(s))

CharsOf(s) == {s[i] : i \in 1..Len(s)}

\* char::is_alphanumeric (Unicode Alphabetic or Numeric)
is_alphanumeric(c) ==
  c \in AsciiLower \cup AsciiUpper \cup AsciiDigit \cup UnicodeAlnum

RECURSIVE trim_start_matches(_, _)
trim_start_matches(s, c) ==
  IF s # <<>> /\ Head(s) = c THEN trim_start_matches(Tail(s), c) ELSE s

RECURSIVE trim_end_matches(_, _)
trim_end_matches(s, c) ==
  IF s # <<>> /\ s[Len(s)] = c
  THEN trim_end_matches(SubSeq(s, 1, Len(s) - 1), c)
  ELSE s

\* str::trim_matches with a single-character pattern
trim_matches(s, c) == trim_end_matches(trim_start_matches(s, c), c)

SanitizeChar(c) == IF is_alphanumeric(c) \/ c = "_" THEN c ELSE "_"

\* import/mod.rs sanitize_table_name
sanitize_table_name(name) == trim_matches(SeqMap(SanitizeChar, name), "_")

\* str::to_lowercase / str::to_uppercase on the words the model uses
to_lowercase(w) ==
  CASE w = "CSV"  -> "csv"
    [] w = "XLSX" -> "xlsx"
    [] w = "Csv"  -> "csv"
    [] OTHER      -> w

to_uppercase(w) ==
  CASE w = "sum"    -> "SUM"
    [] w = "Sum"    -> "SUM"
    [] w = "median" -> "MEDIAN"
    [] w = "drop"   -> "DROP"
    [] w = "like"   -> "LIKE"
    [] w = "in"     -> "IN"
    [] w = "is"     -> "IS"
    [] OTHER        -> w

\* ------------------------------------------------------------------------
\* Cell values of the engine, JSON values of the wire, workbook cells
\* ------------------------------------------------------------------------
Null     == [t |-> "null", i |-> 0, s |-> <<>>]
IntV(n)  == [t |-> "int",  i |-> n, s |-> <<>>]
TextV(x) == [t |-> "text", i |-> 0, s |-> x]

\* serde_json::Value as FilterCondition.value carries it
JNull    == [t |-> "null",   i |-> 0, s |-> <<>>, a |-> <<>>]
JNum(n)  == [t |-> "number", i |-> n, s |-> <<>>, a |-> <<>>]
JStr(x)  == [t |-> "string", i |-> 0, s |-> x,    a |-> <<>>]
JBool(b) == [t |-> "bool",   i |-> IF b THEN 1 ELSE 0, s |-> <<>>, a |-> <<>>]
\* the elements of an array are scalars [t, i, s]
JArr(xs) == [t |-> "array",  i |-> 0, s |-> <<>>, a |-> xs]

\* usize / i64 to_string on the single digits the model uses
DigitText(n) ==
  CASE n = 0 -> <<"0">> [] n = 1 -> <<"1">> [] n = 2 -> <<"2">>
    [] n = 3 -> <<"3">> [] n = 4 -> <<"4">> [] n = 5 -> <<"5">>
    [] n = 6 -> <<"6">> [] n = 7 -> <<"7">> [] n = 8 -> <<"8">>
    [] OTHER -> <<"9">>

\* calamine Data::to_string: an empty cell is "", a number its digits
cell_to_string(cell) ==
  CASE cell.t = "null" -> <<>>
    [] cell.t = "int"  -> DigitText(cell.i)
    [] OTHER           -> cell.s

\* str::trim on the header cells of the model (blanks at the ends)
trim(s) == trim_matches(s, " ")

\* s.replace("'", "''")
RECURSIVE replace_quote(_)
replace_quote(s) ==
  IF s = <<>> THEN <<>>
  ELSE (IF Head(s) = "'" THEN <<"'", "'">> ELSE <<Head(s)>>)
       \o replace_quote(Tail(s))

\* ------------------------------------------------------------------------
\* SQL text.  A piece is a caller-supplied text pasted into the statement:
\* Bare(x) by "{}", Quoted(x) by "\"{}\"".
\* ------------------------------------------------------------------------
Bare(x)   == [text |-> x, quoted |-> FALSE]
Quoted(x) == [text |-> x, quoted |-> TRUE]
NoPiece   == Bare(<<>>)

\* a literal as build_condition_clause writes it
LitStr(x)  == [t |-> "str",  i |-> 0, s |-> x,    a |-> <<>>]
LitNum(n)  == [t |-> "num",  i |-> n, s |-> <<>>, a |-> <<>>]
LitBool(b) == [t |-> "bool", i |-> IF b THEN 1 ELSE 0, s |-> <<>>, a |-> <<>>]
LitNull    == [t |-> "null", i |-> 0, s |-> <<>>, a |-> <<>>]
LitList(l) == [t |-> "list", i |-> 0, s |-> <<>>, a |-> l]

\* One statement.  table/target are the relation names, cols the column
\* pieces (ORDER BY keys, GROUP BY columns, aggregated columns, CREATE
\* TABLE columns), dirs the ASC/DESC words, conds the WHERE clauses, funcs
\* the function words, aliases the AS names, limit = -1 when absent.
EmptyStmt ==
  [verb |-> "", describe |-> FALSE, table |-> NoPiece, target |-> NoPiece,
   cols |-> <<>>, dirs |-> <<>>, conds |-> <<>>, funcs |-> <<>>,
   aliases |-> <<>>, groups |-> <<>>, limit |-> -1, offset |-> 0,
   file |-> 0, values |-> <<>>, numeric |-> FALSE]

\* ------------------------------------------------------------------------
\* The files on disk
\* ------------------------------------------------------------------------
x_ == <<"x">>
y_ == <<"y">>
t_ == <<"t">>
u_ == <<"u">>
v_ == <<"v">>

Col(n, ty) == [name |-> n, type |-> ty]

\* A file: stem and extension of its path, whether it can be read as what
\* its extension says, and its content.  A CSV file has typed columns and
\* rows; a workbook has sheets, each a list of rows of cells, row 1 being
\* the header.  bad_row is the data row at whose INSERT the engine reports
\* an error (its memory limit is set at duckdb_core/mod.rs:30-40), 0 when
\* there is none.
NoFile ==
  [stem |-> <<>>, ext |-> "", readable |-> FALSE, cols |-> <<>>,
   rows |-> <<>>, sheets |-> <<>>, bad_row |-> 0]

Files ==
  << \* 1: t.csv
     [NoFile EXCEPT !.stem = t_, !.ext = "csv", !.readable = TRUE,
        !.cols = <<Col(x_, "BIGINT"), Col(y_, "BIGINT")>>,
        !.rows = << <<IntV(2), IntV(1)>>, <<IntV(1), IntV(2)>>,
                    <<IntV(1), Null>> >>],
     \* 2: u.CSV
     [NoFile EXCEPT !.stem = u_, !.ext = "CSV", !.readable = TRUE,
        !.cols = <<Col(x_, "BIGINT"), Col(y_, "VARCHAR")>>,
        !.rows = << <<IntV(3), TextV(<<"b">>)>>,
                    <<IntV(1), TextV(<<"a", "'">>)>> >>],
     \* 3: t.xlsx, header "x", " y " and three rows
     [NoFile EXCEPT !.stem = t_, !.ext = "xlsx", !.readable = TRUE,
        !.sheets = << << <<TextV(x_), TextV(<<" ", "y", " ">>)>>,
                         <<IntV(2), TextV(<<"a">>)>>,
                         <<IntV(1), Null>>,
                         <<IntV(3), TextV(<<"b">>)>> >> >>],
     \* 4: t.txt
     [NoFile EXCEPT !.stem = t_, !.ext = "txt", !.readable = TRUE],
     \* 5: u.csv that the engine cannot read
     [NoFile EXCEPT !.stem = u_, !.ext = "csv"],
     \* 6: u.xlsx, a workbook without sheets
     [NoFile EXCEPT !.stem = u_, !.ext = "xlsx", !.readable = TRUE],
     \* 7: t.xlsm, two rows, the engine failing on the second
     [NoFile EXCEPT !.stem = t_, !.ext = "xlsm", !.readable = TRUE,
        !.bad_row = 2,
        !.sheets = << << <<TextV(x_)>>, <<IntV(7)>>, <<IntV(8)>> >> >>],
     \* 8: t, a path without extension
     [NoFile EXCEPT !.stem = t_, !.readable = TRUE]
  >>

FileIds == 1..Len(Files)

\* ------------------------------------------------------------------------
\* The engine: a catalog of tables and views
\* ------------------------------------------------------------------------
TableObj(cols, rows) ==
  [kind |-> "table", cols |-> cols, rows |-> rows, src |-> <<>>,
   conds |-> <<>>]
ViewObj(src, conds) ==
  [kind |-> "view", cols |-> <<>>, rows |-> <<>>, src |-> src,
   conds |-> conds]

\* A name the lexer takes without quotes: starts with a letter, "_" or a
\* non-ASCII character, continues with these or digits.
BareIdentOk(x) ==
  /\ x # <<>>
  /\ Head(x) \notin AsciiDigit
  /\ CharsOf(x) \subseteq IdentChars \cup UnicodeAlnum

\* A piece the lexer takes as one identifier
IdentOk(p) ==
  IF p.quoted THEN p.text # <<>> /\ "\"" \notin CharsOf(p.text)
  ELSE BareIdentOk(p.text)

EngineOperators == {"=", "!=", "<>", ">", "<", ">=", "<=", "LIKE", "IN"}
EngineFunctions ==
  {"SUM", "AVG", "COUNT", "MIN", "MAX", "STDDEV", "MEDIAN", "MODE"}

\* ASCII order of the characters of cell texts
AsciiOrder ==
  <<" ", "!", "'", "0","1","2","3","4","5","6","7","8","9",
    "A","B","C","D","E","F","G","H","I","J","K","L","M",
    "N","O","P","Q","R","S","T","U","V","W","X","Y","Z", "_",
    "a","b","c","d","e","f","g","h","i","j","k","l","m",
    "n","o","p","q","r","s","t","u","v","w","x","y","z">>

CharRank(c) ==
  IF \E i \in 1..Len(AsciiOrder) : AsciiOrder[i] = c
  THEN CHOOSE i \in 1..Len(AsciiOrder) : AsciiOrder[i] = c
  ELSE Len(AsciiOrder) + 1

RECURSIVE TextLess(_, _)
TextLess(a, b) ==
  IF b = <<>> THEN FALSE
  ELSE IF a = <<>> THEN TRUE
  ELSE IF Head(a) = Head(b) THEN TextLess(Tail(a), Tail(b))
  ELSE CharRank(Head(a)) < CharRank(Head(b))

\* v1 < v2 for two non-null values of one type
ValueLess(v1, v2) ==
  IF v1.t = "int" THEN v1.i < v2.i ELSE TextLess(v1.s, v2.s)

\* LIKE with % and _
RECURSIVE LikeMatch(_, _)
LikeMatch(s, p) ==
  IF p = <<>> THEN s = <<>>
  ELSE IF Head(p) = "%"
       THEN LikeMatch(s, Tail(p)) \/ (s # <<>> /\ LikeMatch(Tail(s), p))
       ELSE /\ s # <<>>
            /\ (Head(p) = "_" \/ Head(p) = Head(s))
            /\ LikeMatch(Tail(s), Tail(p))

\* the text a quoted literal denotes: '' stands for '
RECURSIVE unquote(_)
unquote(s) ==
  IF s = <<>> THEN <<>>
  ELSE IF Len(s) >= 2 /\ s[1] = "'" /\ s[2] = "'"
       THEN <<"'">> \o unquote(Tail(Tail(s)))
       ELSE <<Head(s)>> \o unquote(Tail(s))

\* a literal lexes: a lone ' inside a quoted literal ends it too early
RECURSIVE QuotesPaired(_)
QuotesPaired(s) ==
  IF s = <<>> THEN TRUE
  ELSE IF Head(s) # "'" THEN QuotesPaired(Tail(s))
  ELSE Len(s) >= 2 /\ s[2] = "'" /\ QuotesPaired(Tail(Tail(s)))

LitValue(l) ==
  CASE l.t = "num" -> IntV(l.i)
    [] l.t = "str" -> TextV(unquote(l.s))
    [] OTHER       -> Null

ColIndex(cols, n) ==
  IF \E i \in 1..Len(cols) : cols[i].name = n
  THEN CHOOSE i \in 1..Len(cols) : cols[i].name = n
  ELSE 0

LitType(l) ==
  CASE l.t = "num" -> "BIGINT" [] l.t = "str" -> "VARCHAR" [] OTHER -> l.t

\* The clause parses and binds against the columns
ClauseBinds(cols, c) ==
  /\ IdentOk(c.col)
  /\ ColIndex(cols, c.col.text) > 0
  /\ c.op \in EngineOperators
  /\ LET ty == cols[ColIndex(cols, c.col.text)].type IN
     /\ c.lit.t = "str" => QuotesPaired(c.lit.s)
     /\ c.lit.t # "bool"
     /\ IF c.op = "IN"
        THEN /\ c.lit.t = "list"
             /\ c.lit.a # <<>>
             /\ \A i \in 1..Len(c.lit.a) :
                  /\ LitType(c.lit.a[i]) \in {ty, "null"}
                  /\ c.lit.a[i].t = "str" => QuotesPaired(c.lit.a[i].s)
        ELSE /\ LitType(c.lit) \in {ty, "null"}
             /\ c.op = "LIKE" => ty = "VARCHAR"

\* Three-valued logic: a comparison with NULL is not true
ClauseHolds(cols, row, c) ==
  LET v == row[ColIndex(cols, c.col.text)]
      l == LitValue(c.lit)
  IN  IF v.t = "null" THEN FALSE
      ELSE IF c.op = "IN"
      THEN \E i \in 1..Len(c.lit.a) :
             c.lit.a[i].t # "null" /\ LitValue(c.lit.a[i]) = v
      ELSE IF l.t = "null" THEN FALSE
      ELSE CASE c.op = "="    -> v = l
             [] c.op = "!="   -> v # l
             [] c.op = "<>"   -> v # l
             [] c.op = ">"    -> ValueLess(l, v)
             [] c.op = "<"    -> ValueLess(v, l)
             [] c.op = ">="   -> ~ValueLess(v, l)
             [] c.op = "<="   -> ~ValueLess(l, v)
             [] OTHER         -> LikeMatch(v.s, l.s)

RECURSIVE SelectSeq2(_, _, _)
SelectSeq2(rows, cols, conds) ==
  IF rows = <<>> THEN <<>>
  ELSE (IF \A i \in 1..Len(conds) : ClauseHolds(cols, Head(rows), conds[i])
        THEN <<Head(rows)>> ELSE <<>>)
       \o SelectSeq2(Tail(rows), cols, conds)

NoRel == [ok |-> FALSE, cols |-> <<>>, rows |-> <<>>]

\* The relation a name denotes: a table's rows in insertion order, a
\* view's query evaluated now.
RECURSIVE Relation(_, _, _)
Relation(cat, n, depth) ==
  IF n \notin DOMAIN cat \/ depth = 0 THEN NoRel
  ELSE IF cat[n].kind = "table"
  THEN [ok |-> TRUE, cols |-> cat[n].cols, rows |-> cat[n].rows]
  ELSE LET r == Relation(cat, cat[n].src, depth - 1) IN
       IF r.ok /\ \A i \in 1..Len(cat[n].conds) :
                    ClauseBinds(r.cols, cat[n].conds[i])
       THEN [r EXCEPT !.rows = SelectSeq2(r.rows, r.cols, cat[n].conds)]
       ELSE NoRel

\* ------------------------------------------------------------------------
\* What the engine does with one statement
\* ------------------------------------------------------------------------
MaxViewDepth == 3

Without(cat, n) == [m \in (DOMAIN cat) \ {n} |-> cat[m]]
With(cat, n, obj) ==
  [m \in (DOMAIN cat) \cup {n} |-> IF m = n THEN obj ELSE cat[m]]

\* the result of a statement: the catalog after it, and the rows, columns
\* and count it returns
Failed(cat) == [ok |-> FALSE, cat |-> cat, cols |-> <<>>, rows |-> <<>>,
                n |-> 0]
Done(cat)   == [ok |-> TRUE, cat |-> cat, cols |-> <<>>, rows |-> <<>>,
                n |-> 0]
Rows(cat, cols, rows) ==
  [ok |-> TRUE, cat |-> cat, cols |-> cols, rows |-> rows, n |-> Len(rows)]

Injective(p) == \A i, j \in DOMAIN p : p[i] = p[j] => i = j
Perms(n) == {p \in [1..n -> 1..n] : Injective(p)}

\* ORDER BY keys: NULLs come last in either direction (the engine's
\* default null order), the others by the key's direction.
KeyBefore(v1, v2, dir) ==
  IF v1.t = "null" THEN FALSE
  ELSE IF v2.t = "null" THEN TRUE
  ELSE IF dir = "ASC" THEN ValueLess(v1, v2) ELSE ValueLess(v2, v1)

RowBefore(cols, keys, dirs, r1, r2) ==
  \E k \in 1..Len(keys) :
    /\ KeyBefore(r1[ColIndex(cols, keys[k].text)],
                 r2[ColIndex(cols, keys[k].text)], dirs[k])
    /\ \A j \in 1..(k - 1) :
         r1[ColIndex(cols, keys[j].text)] = r2[ColIndex(cols, keys[j].text)]

\* every order of the rows that ORDER BY may produce (ties in any order)
OrderBy(rows, cols, keys, dirs) ==
  {[i \in 1..Len(rows) |-> rows[p[i]]] :
     p \in {q \in Perms(Len(rows)) :
              \A i, j \in 1..Len(rows) :
                i < j => ~RowBefore(cols, keys, dirs, rows[q[j]], rows[q[i]])}}

Window(rows, limit, offset) ==
  IF offset >= Len(rows) THEN <<>>
  ELSE SubSeq(rows, offset + 1,
              IF limit < 0 \/ offset + limit > Len(rows)
              THEN Len(rows) ELSE offset + limit)

ColumnValues(rel, n) ==
  [i \in 1..Len(rel.rows) |-> rel.rows[i][ColIndex(rel.cols, n)]]

NonNull(vals) == SelectSeq(vals, LAMBDA v : v.t # "null")

RECURSIVE SumOf(_)
SumOf(vals) == IF vals = <<>> THEN 0 ELSE Head(vals).i + SumOf(Tail(vals))

Opaque == [t |-> "double", i |-> 0, s |-> <<>>]

\* the value of an aggregate over the values of a column
AggValue(f, vals) ==
  LET nn == NonNull(vals)
      F  == to_uppercase(f)
  IN  CASE F = "COUNT" -> IntV(Len(nn))
        [] nn = <<>>   -> Null
        [] F = "SUM"   -> IntV(SumOf(nn))
        [] F = "MIN"   ->
             nn[CHOOSE i \in 1..Len(nn) :
                  \A j \in 1..Len(nn) : ~ValueLess(nn[j], nn[i])]
        [] F = "MAX"   ->
             nn[CHOOSE i \in 1..Len(nn) :
                  \A j \in 1..Len(nn) : ~ValueLess(nn[i], nn[j])]
        [] OTHER       -> Opaque

AggBinds(cols, f, c) ==
  /\ to_uppercase(f) \in EngineFunctions
  /\ IdentOk(c)
  /\ ColIndex(cols, c.text) > 0
  /\ to_uppercase(f) \in {"SUM", "AVG", "STDDEV", "MEDIAN"}
       => cols[ColIndex(cols, c.text)].type = "BIGINT"

Distinct(seq) == \A i, j \in 1..Len(seq) : seq[i] = seq[j] => i = j

RECURSIVE Dedup(_)
Dedup(seq) ==
  IF seq = <<>> THEN <<>>
  ELSE <<Head(seq)>> \o Dedup(SelectSeq(Tail(seq), LAMBDA e : e # Head(seq)))

GroupKey(rel, groups, row) ==
  [g \in 1..Len(groups) |-> row[ColIndex(rel.cols, groups[g].text)]]

GroupRows(rel, groups, funcs, cols) ==
  LET keys == Dedup([i \in 1..Len(rel.rows) |->
                       GroupKey(rel, groups, rel.rows[i])])
  IN  [k \in 1..Len(keys) |->
         LET members == [rel EXCEPT !.rows =
               SelectSeq(rel.rows,
                         LAMBDA r : GroupKey(rel, groups, r) = keys[k])]
         IN  keys[k] \o
             [a \in 1..Len(funcs) |->
                AggValue(funcs[a], ColumnValues(members, cols[a].text))]]

\* SELECT * FROM <table> [WHERE ...] [LIMIT l OFFSET o], or its DESCRIBE
ExecSelect(cat, st) ==
  LET rel == Relation(cat, st.table.text, MaxViewDepth) IN
  IF /\ IdentOk(st.table)
     /\ rel.ok
     /\ \A i \in 1..Len(st.conds) : ClauseBinds(rel.cols, st.conds[i])
  THEN IF st.describe
       THEN Rows(cat, rel.cols, <<>>)
       ELSE Rows(cat, rel.cols,
                 Window(SelectSeq2(rel.rows, rel.cols, st.conds),
                        st.limit, st.offset))
  ELSE Failed(cat)

\* SELECT [groups,] f(col) as "alias", ... FROM <table> [GROUP BY groups]
ExecGroup(cat, st) ==
  LET rel == Relation(cat, st.table.text, MaxViewDepth) IN
  IF /\ IdentOk(st.table)
     /\ rel.ok
     /\ st.funcs # <<>>
     /\ \A g \in 1..Len(st.groups) :
          IdentOk(st.groups[g]) /\ ColIndex(rel.cols, st.groups[g].text) > 0
     /\ \A a \in 1..Len(st.funcs) :
          AggBinds(rel.cols, st.funcs[a], st.cols[a]) /\ IdentOk(st.aliases[a])
  THEN LET outcols ==
             [g \in 1..Len(st.groups) |->
                rel.cols[ColIndex(rel.cols, st.groups[g].text)]]
             \o [a \in 1..Len(st.aliases) |->
                   Col(st.aliases[a].text, "")]
       IN  IF st.describe THEN Rows(cat, outcols, <<>>)
           ELSE IF st.groups = <<>>
           THEN Rows(cat, outcols,
                     << [a \in 1..Len(st.funcs) |->
                           AggValue(st.funcs[a],
                                    ColumnValues(rel, st.cols[a].text))] >>)
           ELSE Rows(cat, outcols,
                     GroupRows(rel, st.groups, st.funcs, st.cols))
  ELSE Failed(cat)

\* The outcomes of one statement on a catalog (more than one only for an
\* ORDER BY with ties)
Exec(cat, st) ==
  LET T   == st.table.text
      G   == st.target.text
      rel == Relation(cat, T, MaxViewDepth)
  IN
  CASE st.verb = "DROP TABLE IF EXISTS" ->
         {IF ~IdentOk(st.table) THEN Failed(cat)
          ELSE IF T \notin DOMAIN cat THEN Done(cat)
          ELSE IF cat[T].kind = "table" THEN Done(Without(cat, T))
          ELSE Failed(cat)}
    [] st.verb = "DROP TABLE" ->
         {IF IdentOk(st.table) /\ T \in DOMAIN cat /\ cat[T].kind = "table"
          THEN Done(Without(cat, T)) ELSE Failed(cat)}
    [] st.verb = "DROP VIEW IF EXISTS" ->
         {IF ~IdentOk(st.target) THEN Failed(cat)
          ELSE IF G \notin DOMAIN cat THEN Done(cat)
          ELSE IF cat[G].kind = "view" THEN Done(Without(cat, G))
          ELSE Failed(cat)}
    [] st.verb = "CREATE TABLE AS FROM" ->
         {IF /\ IdentOk(st.table)
             /\ T \notin DOMAIN cat
             /\ Files[st.file].readable
             /\ Files[st.file].cols # <<>>
          THEN Done(With(cat, T, TableObj(Files[st.file].cols,
                                          Files[st.file].rows)))
          ELSE Failed(cat)}
    [] st.verb = "CREATE TABLE" ->
         {IF /\ IdentOk(st.table)
             /\ T \notin DOMAIN cat
             /\ st.cols # <<>>
             /\ \A i \in 1..Len(st.cols) : IdentOk(st.cols[i])
             /\ Distinct(st.cols)
          THEN Done(With(cat, T,
                 TableObj([i \in 1..Len(st.cols) |->
                             Col(st.cols[i].text, "VARCHAR")], <<>>)))
          ELSE Failed(cat)}
    [] st.verb = "INSERT" ->
         {IF /\ IdentOk(st.table)
             /\ T \in DOMAIN cat
             /\ cat[T].kind = "table"
             /\ Len(st.values) = Len(cat[T].cols)
          THEN Done(With(cat, T,
                 [cat[T] EXCEPT !.rows = Append(@, st.values)]))
          ELSE Failed(cat)}
    [] st.verb = "CREATE TABLE AS SELECT ORDER BY" ->
         IF /\ IdentOk(st.target)
            /\ IdentOk(st.table)
            /\ G \notin DOMAIN cat
            /\ rel.ok
            /\ \A k \in 1..Len(st.cols) :
                 IdentOk(st.cols[k]) /\ ColIndex(rel.cols, st.cols[k].text) > 0
         THEN {Done(With(cat, G, TableObj(rel.cols, o))) :
                 o \in OrderBy(rel.rows, rel.cols, st.cols, st.dirs)}
         ELSE {Failed(cat)}
    [] st.verb = "ALTER TABLE RENAME" ->
         {IF /\ IdentOk(st.table)
             /\ IdentOk(st.target)
             /\ T \in DOMAIN cat
             /\ cat[T].kind = "table"
             /\ G \notin DOMAIN cat
          THEN Done(With(Without(cat, T), G, cat[T]))
          ELSE Failed(cat)}
    [] st.verb = "CREATE VIEW" ->
         {IF /\ IdentOk(st.target)
             /\ IdentOk(st.table)
             /\ G \notin DOMAIN cat
             /\ rel.ok
             /\ \A i \in 1..Len(st.conds) : ClauseBinds(rel.cols, st.conds[i])
          THEN Done(With(cat, G, ViewObj(T, st.conds)))
          ELSE Failed(cat)}
    [] st.verb = "SELECT *" -> {ExecSelect(cat, st)}
    [] st.verb = "SELECT GROUP" -> {ExecGroup(cat, st)}
    [] st.verb = "DESCRIBE" ->
         {IF IdentOk(st.table) /\ rel.ok
          THEN Rows(cat, rel.cols, <<>>) ELSE Failed(cat)}
    [] st.verb = "PRAGMA table_info" ->
         {IF "'" \notin CharsOf(T) /\ rel.ok
          THEN Rows(cat, rel.cols, <<>>) ELSE Failed(cat)}
    [] st.verb = "SELECT COUNT(*)" ->
         {IF IdentOk(st.table) /\ rel.ok
          THEN [Done(cat) EXCEPT !.n = Len(rel.rows)] ELSE Failed(cat)}
    [] st.verb = "COPY TO" ->
         {IF IdentOk(st.table) /\ rel.ok
          THEN [Done(cat) EXCEPT !.n = Len(rel.rows)] ELSE Failed(cat)}
    [] st.verb = "SELECT AGG" ->
         {IF /\ IdentOk(st.table)
             /\ rel.ok
             /\ AggBinds(rel.cols, st.funcs[1], st.cols[1])
          THEN Rows(cat, <<>>,
                 << <<AggValue(st.funcs[1],
                               ColumnValues(rel, st.cols[1].text))>> >>)
          ELSE Failed(cat)}
    [] st.verb = "SELECT CORR" ->
         {IF /\ IdentOk(st.table)
             /\ rel.ok
             /\ \A k \in 1..2 : AggBinds(rel.cols, "AVG", st.cols[k])
          THEN Rows(cat, <<>>,
                 << << IF \E i \in 1..Len(rel.rows) :
                            \A k \in 1..2 :
                              ColumnValues(rel, st.cols[k].text)[i].t # "null"
                       THEN Opaque ELSE Null >> >>)
          ELSE Failed(cat)}
    [] st.verb = "SELECT STATS" ->
         {IF /\ IdentOk(st.table)
             /\ rel.ok
             /\ IdentOk(st.cols[1])
             /\ ColIndex(rel.cols, st.cols[1].text) > 0
          THEN LET vals == ColumnValues(rel, st.cols[1].text) IN
               Rows(cat, <<>>,
                 << << IntV(Len(NonNull(vals))),
                       IntV(Len(vals) - Len(NonNull(vals))),
                       IntV(Len(Dedup(NonNull(vals)))),
                       AggValue("MIN", vals), AggValue("MAX", vals) >> >>)
          ELSE Failed(cat)}
    [] OTHER -> {Done(cat)}   \* BEGIN TRANSACTION, COMMIT

\* ------------------------------------------------------------------------
\* The statements the commands build with format!()
\* ------------------------------------------------------------------------
Stmt(verb, table) == [EmptyStmt EXCEPT !.verb = verb, !.table = table]

\* the drop aimed at another table
ImportDropStmt_mut(name) ==
  Stmt("DROP TABLE IF EXISTS", Bare(name \o <<"_">>))

\* import/mod.rs:272  "DROP TABLE IF EXISTS {}"
ImportDropStmt(name) == Stmt("DROP TABLE IF EXISTS", Bare(name))

\* import/mod.rs:85  "CREATE TABLE {} AS FROM '{}'"
CsvCreateStmt(name, f) ==
  [Stmt("CREATE TABLE AS FROM", Bare(name)) EXCEPT !.file = f]

\* "SELECT COUNT(*) FROM {}"
CountStmt(name) == Stmt("SELECT COUNT(*)", Bare(name))

\* import/mod.rs:160-169  "CREATE TABLE {} ({})" with "\"{}\" VARCHAR"
ExcelCreateStmt(name, headers) ==
  [Stmt("CREATE TABLE", Bare(name)) EXCEPT
     !.cols = [i \in 1..Len(headers) |-> Quoted(headers[i])]]

\* import/mod.rs:178  "INSERT INTO {} VALUES ({})", parameters bound
ExcelInsertStmt(name, values) ==
  [Stmt("INSERT", Bare(name)) EXCEPT !.values = values]

\* every key sorted upwards
Direction_mut(sc) == "ASC"

\* editor/mod.rs:31-39
Direction(sc) == IF sc.ascending THEN "ASC" ELSE "DESC"

\* editor/mod.rs:42  format!("{}_sorted_temp", table_name)
SortedTempSuffix == <<"_","s","o","r","t","e","d","_","t","e","m","p">>
temp_table(table_name) == table_name \o SortedTempSuffix

\* editor/mod.rs:45  "DROP TABLE IF EXISTS {}"
ReorderDropTempStmt(table_name) ==
  Stmt("DROP TABLE IF EXISTS", Bare(temp_table(table_name)))

\* editor/mod.rs:48-51  "CREATE TABLE {} AS SELECT * FROM {} ORDER BY {}"
ReorderCreateStmt(table_name, sort_columns) ==
  [Stmt("CREATE TABLE AS SELECT ORDER BY", Bare(table_name)) EXCEPT
     !.target = Bare(temp_table(table_name)),
     !.cols = [i \in 1..Len(sort_columns) |-> Quoted(sort_columns[i].column)],
     !.dirs = [i \in 1..Len(sort_columns) |-> Direction(sort_columns[i])]]

\* editor/mod.rs:56  "DROP TABLE {}"
ReorderDropStmt(table_name) == Stmt("DROP TABLE", Bare(table_name))

\* editor/mod.rs:60-63  "ALTER TABLE {} RENAME TO {}"
ReorderRenameStmt(table_name) ==
  [Stmt("ALTER TABLE RENAME", Bare(temp_table(table_name))) EXCEPT
     !.target = Bare(table_name)]

\* statistics/mod.rs:322-339: the value of a condition as SQL text
value_str(v) ==
  CASE v.t = "string" -> LitStr(replace_quote(v.s))
    [] v.t = "number" -> LitNum(v.i)
    [] v.t = "bool"   -> LitBool(v.i = 1)
    [] v.t = "null"   -> LitNull
    [] OTHER ->
         LitList([i \in 1..Len(v.a) |->
                    CASE v.a[i].t = "string" -> LitStr(replace_quote(v.a[i].s))
                      [] v.a[i].t = "number" -> LitNum(v.a[i].i)
                      [] OTHER               -> LitNull])

\* statistics/mod.rs:341-345: IN and LIKE are matched in upper case and
\* written as such, any other operator is pasted as the caller gave it
build_condition_clause(c) ==
  [col |-> Quoted(c.column),
   op  |-> CASE to_uppercase(c.operator) = "IN"   -> "IN"
             [] to_uppercase(c.operator) = "LIKE" -> "LIKE"
             [] OTHER                             -> c.operator,
   lit |-> value_str(c.value)]

where_clauses(conditions) ==
  [i \in 1..Len(conditions) |-> build_condition_clause(conditions[i])]

\* Option<usize>::unwrap_or; None is -1
unwrap_or(opt, default) == IF opt < 0 THEN default ELSE opt

DefaultLimit == 1000

\* duckdb_core/mod.rs:141  "SELECT * FROM {} LIMIT {} OFFSET {}"
QueryDataStmt(table_name, limit, offset) ==
  [Stmt("SELECT *", Bare(table_name)) EXCEPT
     !.limit = unwrap_or(limit, DefaultLimit), !.offset = unwrap_or(offset, 0)]

\* the window always taken from the first row
FilterDataStmt_mut(table_name, conditions, limit, offset) ==
  [Stmt("SELECT *", Bare(table_name)) EXCEPT
     !.conds = where_clauses(conditions),
     !.limit = unwrap_or(limit, DefaultLimit), !.offset = 0]

\* statistics/mod.rs:290-308  "SELECT * FROM {} {} LIMIT {} OFFSET {}"
FilterDataStmt(table_name, conditions, limit, offset) ==
  [Stmt("SELECT *", Bare(table_name)) EXCEPT
     !.conds = where_clauses(conditions),
     !.limit = unwrap_or(limit, DefaultLimit), !.offset = unwrap_or(offset, 0)]

\* export/mod.rs:83  "SELECT * FROM {}"
ExportSelectStmt(table_name) == Stmt("SELECT *", Bare(table_name))

\* statistics/mod.rs:359-385
GroupStmt(table_name, group_by_columns, aggregations) ==
  [Stmt("SELECT GROUP", Bare(table_name)) EXCEPT
     !.groups = [i \in 1..Len(group_by_columns) |->
                   Quoted(group_by_columns[i])],
     !.funcs = [i \in 1..Len(aggregations) |-> aggregations[i].function],
     !.cols = [i \in 1..Len(aggregations) |-> Quoted(aggregations[i].column)],
     !.aliases = [i \in 1..Len(aggregations) |->
                    Quoted(aggregations[i].alias)]]

\* statistics/mod.rs:186-190  "SELECT {}(\"{}\") FROM {}"
AggregateStmt(table_name, column_name, function) ==
  [Stmt("SELECT AGG", Bare(table_name)) EXCEPT
     !.funcs = <<to_uppercase(function)>>, !.cols = <<Quoted(column_name)>>]

\* statistics/mod.rs:227-230  "SELECT CORR(\"{}\", \"{}\") FROM {}"
CorrelationStmt(table_name, column_x, column_y) ==
  [Stmt("SELECT CORR", Bare(table_name)) EXCEPT
     !.cols = <<Quoted(column_x), Quoted(column_y)>>]

\* statistics/mod.rs:251  "DROP VIEW IF EXISTS {}"
DropViewStmt(view_name) ==
  [EmptyStmt EXCEPT !.verb = "DROP VIEW IF EXISTS", !.target = Bare(view_name)]

\* statistics/mod.rs:256-271  "CREATE VIEW {} AS SELECT * FROM {} {}"
CreateViewStmt(view_name, source_table, conditions) ==
  [Stmt("CREATE VIEW", Bare(source_table)) EXCEPT
     !.target = Bare(view_name), !.conds = where_clauses(conditions)]

\* statistics/mod.rs:54  "DESCRIBE {}"
DescribeTableStmt(table_name) == Stmt("DESCRIBE", Bare(table_name))

\* statistics/mod.rs:89-93
is_numeric(data_type) == data_type \in {"BIGINT", "INTEGER", "DOUBLE"}

\* statistics/mod.rs:96-133
StatsStmt(table_name, column_name, data_type) ==
  [Stmt("SELECT STATS", Bare(table_name)) EXCEPT
     !.cols = <<Quoted(column_name)>>, !.numeric = is_numeric(data_type)]

\* duckdb_core/mod.rs:106  "PRAGMA table_info('{}')"
TableInfoStmt(table_name) == Stmt("PRAGMA table_info", Bare(table_name))

\* export/mod.rs:46-51 "COPY {} TO '{}' (FORMAT CSV, {})" and
\* export/mod.rs:165-170 "COPY ({}) TO '{}' (FORMAT CSV, {})"
CopyStmt(source) == Stmt("COPY TO", Bare(source))

\* duckdb_core/mod.rs:48  format!("DESCRIBE {}", query)
DescribeStmt(query) == [query EXCEPT !.describe = TRUE]

\* the caller-supplied texts of a statement, its operator words and its
\* function words
Pieces(st) ==
  (IF st.table = NoPiece THEN <<>> ELSE <<st.table>>)
  \o (IF st.target = NoPiece THEN <<>> ELSE <<st.target>>)
  \o st.cols \o st.groups \o st.aliases
  \o [i \in 1..Len(st.conds) |-> st.conds[i].col]

SentForm(st) ==
  [verb |-> st.verb, describe |-> st.describe, pieces |-> Pieces(st),
   ops |-> [i \in 1..Len(st.conds) |-> st.conds[i].op], funcs |-> st.funcs]

\* ------------------------------------------------------------------------
\* State
\* ------------------------------------------------------------------------
VARIABLES
  catalog,   \* the engine's tables and views, by name
  txn,       \* "none" or "open": the connection's transaction
  mutex,     \* AppState.db: 0 when free, else the worker holding the guard
  pc,        \* per worker: where its command stands
  cmd,       \* per worker: the command and its arguments
  loc,       \* per worker: the locals of the running command
  reply,     \* per worker: what its last command returned
  emitted,   \* per worker: the import-progress events of its command
  sent,      \* per worker: the statements its command sent to the engine
  pre,       \* the catalog as it was when the guard was taken
  lastDone,  \* the last import_file that released the guard, its outcome
  pager      \* the front end reading a filter window by window

vars ==
  <<catalog, txn, mutex, pc, cmd, loc, reply, emitted, sent, pre, lastDone,
    pager>>

Workers == 1..NumWorkers

EmptyCatalog == [n \in {} |-> 0]

NoCmd ==
  [kind |-> "none", file_path |-> 0, has_table_name |-> FALSE,
   table_name |-> <<>>, sort_columns |-> <<>>, conditions |-> <<>>,
   limit |-> -1, offset |-> -1, view_name |-> <<>>,
   group_by_columns |-> <<>>, aggregations |-> <<>>, column_name |-> <<>>,
   function |-> "", column_x |-> <<>>, column_y |-> <<>>]

NoLoc ==
  [format |-> "", name |-> <<>>, i |-> 0, total_rows |-> 0,
   batch_count |-> 0, columns |-> <<>>, column_stats |-> <<>>,
   cursor |-> "none"]

NoReply ==
  [status |-> "none", error |-> "", table_name |-> <<>>, n |-> 0,
   columns |-> <<>>, rows |-> <<>>]

Ok(n)           == [NoReply EXCEPT !.status = "ok", !.n = n]
Err(e)          == [NoReply EXCEPT !.status = "err", !.error = e]
QueryResult(r)  ==
  [NoReply EXCEPT !.status = "ok", !.n = Len(r.rows), !.rows = r.rows,
     !.columns = [i \in 1..Len(r.cols) |-> r.cols[i].name]]

NoPager == [active |-> FALSE, w |-> 0, acc |-> <<>>]

NoneDone == [kind |-> "none", file_path |-> 0, name |-> <<>>, ok |-> FALSE,
             cols |-> <<>>, n |-> 0]

\* ImportProgress; total_rows = -1 is None
ImportProgress(rows_imported, total_rows, status) ==
  [rows_imported |-> rows_imported, total_rows |-> total_rows,
   status |-> status]

\* import/mod.rs:182 (scaled: the source emits every 1000 rows)
BATCH_SIZE == 2

\* a lock that never makes a caller wait
lock_free_mut(m) == TRUE

\* Mutex::lock returns when no other guard is alive
lock_free(m) == m = 0

\* The command keeps the guard and goes on to step p
Hold(w, p, cat, l, evs, sts) ==
  /\ pc' = [pc EXCEPT ![w] = p]
  /\ catalog' = cat
  /\ loc' = [loc EXCEPT ![w] = l]
  /\ emitted' = [emitted EXCEPT ![w] = @ \o evs]
  /\ sent' = [sent EXCEPT ![w] = @ \o sts]
  /\ UNCHANGED <<mutex, cmd, reply, pre, lastDone, pager>>

DoneRecord(w, cat, rep) ==
  [kind |-> "import_file", file_path |-> cmd[w].file_path,
   name |-> loc[w].name, ok |-> rep.status = "ok",
   cols |-> IF rep.status = "ok" /\ loc[w].name \in DOMAIN cat
            THEN cat[loc[w].name].cols ELSE <<>>,
   n |-> rep.n]

\* a guard that outlives the frame
unlock_mut(m, w) == m

\* MutexGuard::drop at the end of the command's frame
unlock(m, w) == IF m = w THEN 0 ELSE m

\* The command returns rep; the guard, if held, is dropped with the frame
Finish(w, cat, rep, evs, sts) ==
  /\ pc' = [pc EXCEPT ![w] = "done"]
  /\ catalog' = cat
  /\ loc' = [loc EXCEPT ![w] = NoLoc]
  /\ reply' = [reply EXCEPT ![w] = rep]
  /\ emitted' = [emitted EXCEPT ![w] = @ \o evs]
  /\ sent' = [sent EXCEPT ![w] = @ \o sts]
  /\ mutex' = unlock(mutex, w)
  /\ pre' = IF mutex = w THEN EmptyCatalog ELSE pre
  /\ lastDone' = IF mutex = w /\ cmd[w].kind = "import_file"
                 THEN DoneRecord(w, cat, rep) ELSE lastDone
  /\ UNCHANGED <<cmd, pager>>

\* The first step of each command under the guard
FirstPc(kind) ==
  CASE kind = "import_file"           -> "drop"
    [] kind = "reorder_rows"          -> "drop_temp"
    [] kind = "get_table_info"        -> "table_info"
    [] kind = "get_table_statistics"  -> "stats_count"
    [] kind = "aggregate_column"      -> "aggregate"
    [] kind = "calculate_correlation" -> "corr"
    [] kind = "create_filtered_view"  -> "drop_view"
    [] kind = "export_to_csv"         -> "copy"
    [] kind = "export_query_to_csv"   -> "copy"
    [] OTHER                          -> "describe"

\* The host runs a command on a worker thread
Dispatch(w, Cmds) ==
  /\ pc[w] = "done"
  /\ ~pager.active
  /\ \E c \in Cmds :
       /\ cmd' = [cmd EXCEPT ![w] = c]
       /\ pc' = [pc EXCEPT ![w] =
                   IF c.kind \in {"import_file", "reorder_rows"}
                   THEN "start" ELSE "lock"]
  /\ reply' = [reply EXCEPT ![w] = NoReply]
  /\ emitted' = [emitted EXCEPT ![w] = <<>>]
  /\ sent' = [sent EXCEPT ![w] = <<>>]
  /\ UNCHANGED <<catalog, txn, mutex, loc, pre, lastDone, pager>>

\* state.db.lock()
Acquire(w) ==
  /\ pc[w] = "lock"
  /\ lock_free(mutex)
  /\ mutex' = w
  /\ pre' = catalog
  /\ pc' = [pc EXCEPT ![w] = FirstPc(cmd[w].kind)]
  /\ UNCHANGED <<catalog, txn, cmd, loc, reply, emitted, sent, lastDone,
                 pager>>

\* ------------------------------------------------------------------------
\* import_file (import/mod.rs)
\* ------------------------------------------------------------------------
\* every extension but the workbooks' taken for CSV
detect_file_format_mut(f) ==
  IF to_lowercase(f.ext) \in {"xlsx", "xlsm", "xlsb", "xls"}
  THEN "excel" ELSE "csv"

\* import/mod.rs:41-53: a path without extension, or with another
\* extension than these, is UnsupportedFormat
detect_file_format(f) ==
  CASE f.ext = ""                                        -> "unsupported"
    [] to_lowercase(f.ext) = "csv"                       -> "csv"
    [] to_lowercase(f.ext) \in {"xlsx", "xlsm", "xlsb", "xls"} -> "excel"
    [] OTHER                                             -> "unsupported"

\* import/mod.rs:252-259: the caller's name or the file stem, sanitised
derived_table_name(c) ==
  sanitize_table_name(IF c.has_table_name THEN c.table_name
                      ELSE Files[c.file_path].stem)

\* import/mod.rs:249-266: up to the start event, before the lock
ImportStart(w) ==
  /\ pc[w] = "start"
  /\ cmd[w].kind = "import_file"
  /\ LET format == detect_file_format(Files[cmd[w].file_path]) IN
     IF format = "unsupported"
     THEN Finish(w, catalog, Err("Unsupported file format"), <<>>, <<>>)
     ELSE /\ pc' = [pc EXCEPT ![w] = "lock"]
          /\ loc' = [loc EXCEPT ![w] =
                       [NoLoc EXCEPT !.format = format,
                                     !.name = derived_table_name(cmd[w])]]
          /\ emitted' = [emitted EXCEPT ![w] =
                 Append(@, ImportProgress(0, -1, "Starting import..."))]
          /\ UNCHANGED <<catalog, mutex, cmd, reply, sent, pre, lastDone,
                         pager>>
  /\ UNCHANGED txn

\* import/mod.rs:272: the drop, its error ignored
ImportDrop(w) ==
  /\ pc[w] = "drop"
  /\ \E r \in Exec(catalog, ImportDropStmt(loc[w].name)) :
       Hold(w, IF loc[w].format = "csv" THEN "csv_create" ELSE "excel_create",
            r.cat, loc[w], <<>>, <<SentForm(ImportDropStmt(loc[w].name))>>)
  /\ UNCHANGED txn

\* import/mod.rs:77-96
ImportCsvCreate(w) ==
  /\ pc[w] = "csv_create"
  /\ LET st  == CsvCreateStmt(loc[w].name, cmd[w].file_path)
         evs == <<ImportProgress(0, -1, "Starting CSV import...")>>
     IN  \E r \in Exec(catalog, st) :
           IF r.ok
           THEN Hold(w, "csv_count", r.cat, loc[w], evs, <<SentForm(st)>>)
           ELSE Finish(w, r.cat, Err("DuckDB error"), evs, <<SentForm(st)>>)
  /\ UNCHANGED txn

\* import/mod.rs:98-117 and 282-294
ImportCsvCount(w) ==
  /\ pc[w] = "csv_count"
  /\ LET st == CountStmt(loc[w].name) IN
     \E r \in Exec(catalog, st) :
       IF r.ok
       THEN LET row_count == r.n IN
            Finish(w, r.cat,
                   [Ok(row_count) EXCEPT !.table_name = loc[w].name],
                   <<ImportProgress(row_count, row_count, "Import complete!"),
                     ImportProgress(row_count, row_count, "Import complete!")>>,
                   <<SentForm(st)>>)
       ELSE Finish(w, r.cat, Err("DuckDB error"), <<>>, <<SentForm(st)>>)
  /\ UNCHANGED txn

\* import/mod.rs:142-154: the header cells as column names
ColumnN(i) == <<"C","o","l","u","m","n">> \o DigitText(i)

excel_headers(header_row) ==
  [i \in 1..Len(header_row) |->
     LET header == trim(cell_to_string(header_row[i])) IN
     IF header = <<>> THEN ColumnN(i) ELSE sanitize_table_name(header)]

\* import/mod.rs:127-171: open the workbook, read the header, create
ImportExcelCreate(w) ==
  /\ pc[w] = "excel_create"
  /\ LET f == Files[cmd[w].file_path] IN
     IF ~f.readable
     THEN Finish(w, catalog, Err("Excel error"), <<>>, <<>>)
     ELSE IF f.sheets = <<>>
     THEN Finish(w, catalog, Err("No sheets found in Excel file"), <<>>, <<>>)
     ELSE IF f.sheets[1] = <<>>
     THEN Finish(w, catalog, Err("Empty Excel file"), <<>>, <<>>)
     ELSE LET st == ExcelCreateStmt(loc[w].name,
                                    excel_headers(f.sheets[1][1]))
          IN  \E r \in Exec(catalog, st) :
                IF r.ok
                THEN Hold(w, "excel_begin", r.cat, loc[w], <<>>,
                          <<SentForm(st)>>)
                ELSE Finish(w, r.cat, Err("DuckDB error"), <<>>,
                            <<SentForm(st)>>)
  /\ UNCHANGED txn

\* import/mod.rs:174
ImportExcelBegin(w) ==
  /\ pc[w] = "excel_begin"
  /\ LET st == Stmt("BEGIN TRANSACTION", NoPiece) IN
     IF txn = "none"
     THEN /\ txn' = "open"
          /\ Hold(w, "excel_insert", catalog, [loc[w] EXCEPT !.i = 1], <<>>,
                  <<SentForm(st)>>)
     ELSE /\ UNCHANGED txn
          /\ Finish(w, catalog, Err("DuckDB error"), <<>>, <<SentForm(st)>>)

\* import/mod.rs:185-206: an empty cell is bound as NULL, any other as
\* its text
excel_values(row) ==
  [i \in 1..Len(row) |->
     IF cell_to_string(row[i]) = <<>> THEN Null
     ELSE TextV(cell_to_string(row[i]))]

\* the last event reporting the rows of the open batch only
finalizing_rows_mut(total_rows, batch_count) == batch_count

\* import/mod.rs:226-230: the rows_imported of "Finalizing import..."
finalizing_rows(total_rows, batch_count) == total_rows

\* the row counter set back with the batch counter
row_counters_mut(total_rows, batch_count) ==
  [total_rows  |-> IF batch_count + 1 >= BATCH_SIZE THEN 0
                   ELSE total_rows + 1,
   batch_count |-> IF batch_count + 1 >= BATCH_SIZE THEN 0
                   ELSE batch_count + 1]

\* import/mod.rs:209-220: the counters after one inserted row
row_counters(total_rows, batch_count) ==
  [total_rows  |-> total_rows + 1,
   batch_count |-> IF batch_count + 1 >= BATCH_SIZE THEN 0
                   ELSE batch_count + 1]

\* import/mod.rs:184-221: one turn of the loop over the data rows
ImportExcelInsert(w) ==
  /\ pc[w] = "excel_insert"
  /\ LET sheet == Files[cmd[w].file_path].sheets[1] IN
     /\ loc[w].i + 1 <= Len(sheet)
     /\ LET st == ExcelInsertStmt(loc[w].name,
                                  excel_values(sheet[loc[w].i + 1]))
            total_rows  == loc[w].total_rows + 1
            batch_count == loc[w].batch_count + 1
            counters == row_counters(loc[w].total_rows, loc[w].batch_count)
        IN  \E r \in Exec(catalog, st) :
              IF r.ok /\ Files[cmd[w].file_path].bad_row # loc[w].i
              THEN Hold(w, "excel_insert", r.cat,
                        [loc[w] EXCEPT
                           !.i = @ + 1,
                           !.total_rows = counters.total_rows,
                           !.batch_count = counters.batch_count],
                        IF batch_count >= BATCH_SIZE
                        THEN <<ImportProgress(total_rows, -1, "Importing...")>>
                        ELSE <<>>,
                        <<SentForm(st)>>)
              ELSE Finish(w, r.cat, Err("DuckDB error"), <<>>,
                          <<SentForm(st)>>)
  /\ UNCHANGED txn

\* import/mod.rs:224-232 and 282-294: after the last row
ImportExcelCommit(w) ==
  /\ pc[w] = "excel_insert"
  /\ loc[w].i + 1 > Len(Files[cmd[w].file_path].sheets[1])
  /\ LET st == Stmt("COMMIT", NoPiece)
         rows_imported == loc[w].total_rows
     IN  IF txn = "open"
         THEN /\ txn' = "none"
              /\ Finish(w, catalog,
                   [Ok(rows_imported) EXCEPT !.table_name = loc[w].name],
                   <<ImportProgress(
                       finalizing_rows(loc[w].total_rows, loc[w].batch_count),
                       loc[w].total_rows, "Finalizing import..."),
                     ImportProgress(rows_imported, rows_imported,
                                    "Import complete!")>>,
                   <<SentForm(st)>>)
         ELSE /\ UNCHANGED txn
              /\ Finish(w, catalog, Err("DuckDB error"), <<>>,
                        <<SentForm(st)>>)

import_file(w) ==
  \/ ImportStart(w)
  \/ ImportDrop(w)
  \/ ImportCsvCreate(w)
  \/ ImportCsvCount(w)
  \/ ImportExcelCreate(w)
  \/ ImportExcelBegin(w)
  \/ ImportExcelInsert(w)
  \/ ImportExcelCommit(w)

\* ------------------------------------------------------------------------
\* reorder_rows (editor/mod.rs)
\* ------------------------------------------------------------------------
\* a key list never found empty
is_empty_mut(v) == FALSE

\* editor/mod.rs:23  Vec::is_empty
is_empty(v) == v = <<>>

\* editor/mod.rs:23-27: the check of the keys, then the lock
ReorderStart(w) ==
  /\ pc[w] = "start"
  /\ cmd[w].kind = "reorder_rows"
  /\ IF is_empty(cmd[w].sort_columns)
     THEN Finish(w, catalog, Err("No sort columns specified"), <<>>, <<>>)
     ELSE /\ pc' = [pc EXCEPT ![w] = "lock"]
          /\ UNCHANGED <<catalog, mutex, cmd, loc, reply, emitted, sent, pre,
                         lastDone, pager>>
  /\ UNCHANGED txn

\* editor/mod.rs:45: the drop of the temp table, its error ignored
ReorderDropTemp(w) ==
  /\ pc[w] = "drop_temp"
  /\ LET st == ReorderDropTempStmt(cmd[w].table_name) IN
     \E r \in Exec(catalog, st) :
       Hold(w, "create_sorted", r.cat, loc[w], <<>>, <<SentForm(st)>>)
  /\ UNCHANGED txn

\* editor/mod.rs:48-53
ReorderCreate(w) ==
  /\ pc[w] = "create_sorted"
  /\ LET st == ReorderCreateStmt(cmd[w].table_name, cmd[w].sort_columns) IN
     \E r \in Exec(catalog, st) :
       IF r.ok
       THEN Hold(w, "drop_original", r.cat, loc[w], <<>>, <<SentForm(st)>>)
       ELSE Finish(w, r.cat, Err("Failed to create sorted table"), <<>>,
                   <<SentForm(st)>>)
  /\ UNCHANGED txn

\* editor/mod.rs:56-57
ReorderDrop(w) ==
  /\ pc[w] = "drop_original"
  /\ LET st == ReorderDropStmt(cmd[w].table_name) IN
     \E r \in Exec(catalog, st) :
       IF r.ok
       THEN Hold(w, "rename", r.cat, loc[w], <<>>, <<SentForm(st)>>)
       ELSE Finish(w, r.cat, Err("Failed to drop original table"), <<>>,
                   <<SentForm(st)>>)
  /\ UNCHANGED txn

\* editor/mod.rs:60-69
ReorderRename(w) ==
  /\ pc[w] = "rename"
  /\ LET st == ReorderRenameStmt(cmd[w].table_name) IN
     \E r \in Exec(catalog, st) :
       IF r.ok
       THEN Finish(w, r.cat, Ok(Len(cmd[w].sort_columns)), <<>>,
                   <<SentForm(st)>>)
       ELSE Finish(w, r.cat, Err("Failed to rename table"), <<>>,
                   <<SentForm(st)>>)
  /\ UNCHANGED txn

reorder_rows(w) ==
  \/ ReorderStart(w)
  \/ ReorderDropTemp(w)
  \/ ReorderCreate(w)
  \/ ReorderDrop(w)
  \/ ReorderRename(w)

\* ------------------------------------------------------------------------
\* execute_query (duckdb_core/mod.rs) and the commands that end in it:
\* query_data, filter_data, group_and_aggregate, export_to_excel
\* ------------------------------------------------------------------------
\* duckdb_core/mod.rs:68-89: an engine cell as a JSON value
wire_value(v) ==
  CASE v.t = "null"   -> JNull
    [] v.t = "int"    -> JNum(v.i)
    [] v.t = "double" -> [JNum(v.i) EXCEPT !.t = "float"]
    [] OTHER          -> JStr(v.s)

wire_rows(rows) ==
  [i \in 1..Len(rows) |-> [j \in 1..Len(rows[i]) |-> wire_value(rows[i][j])]]

\* the query each command hands to execute_query
QueryOf(c) ==
  CASE c.kind = "query_data" ->
         QueryDataStmt(c.table_name, c.limit, c.offset)
    [] c.kind = "filter_data" ->
         FilterDataStmt(c.table_name, c.conditions, c.limit, c.offset)
    [] c.kind = "group_and_aggregate" ->
         GroupStmt(c.table_name, c.group_by_columns, c.aggregations)
    [] OTHER -> ExportSelectStmt(c.table_name)

QueryError(kind) ==
  CASE kind = "filter_data"         -> "Filter error"
    [] kind = "group_and_aggregate" -> "Aggregation error"
    [] OTHER                        -> "Query error"

\* duckdb_core/mod.rs:47-58: DESCRIBE <query> for the column names
ExecuteQueryDescribe(w) ==
  /\ pc[w] = "describe"
  /\ LET st == DescribeStmt(QueryOf(cmd[w])) IN
     \E r \in Exec(catalog, st) :
       IF r.ok
       THEN Hold(w, "select", r.cat,
                 [loc[w] EXCEPT !.columns = r.cols, !.cursor = "exhausted"],
                 <<>>, <<SentForm(st)>>)
       ELSE Finish(w, r.cat, Err(QueryError(cmd[w].kind)), <<>>,
                   <<SentForm(st)>>)
  /\ UNCHANGED txn

\* duckdb_core/mod.rs:60-101: the query itself, its rows collected
ExecuteQuerySelect(w) ==
  /\ pc[w] = "select"
  /\ LET st == QueryOf(cmd[w]) IN
     \E r \in Exec(catalog, st) :
       IF r.ok
       THEN Finish(w, r.cat,
                   IF cmd[w].kind = "export_to_excel"
                   THEN Ok(Len(r.rows))
                   ELSE [QueryResult([r EXCEPT !.cols = loc[w].columns])
                           EXCEPT !.rows = wire_rows(r.rows)],
                   <<>>, <<SentForm(st)>>)
       ELSE Finish(w, r.cat, Err(QueryError(cmd[w].kind)), <<>>,
                   <<SentForm(st)>>)
  /\ UNCHANGED txn

execute_query(w) == ExecuteQueryDescribe(w) \/ ExecuteQuerySelect(w)

\* ------------------------------------------------------------------------
\* get_table_info (duckdb_core/mod.rs)
\* ------------------------------------------------------------------------
TableInfoPragma(w) ==
  /\ pc[w] = "table_info"
  /\ LET st == TableInfoStmt(cmd[w].table_name) IN
     \E r \in Exec(catalog, st) :
       IF r.ok
       THEN Hold(w, "info_count", r.cat,
                 [loc[w] EXCEPT !.columns = r.cols, !.cursor = "exhausted"],
                 <<>>, <<SentForm(st)>>)
       ELSE Finish(w, r.cat, Err("Failed to get table info"), <<>>,
                   <<SentForm(st)>>)
  /\ UNCHANGED txn

TableInfoCount(w) ==
  /\ pc[w] = "info_count"
  /\ LET st == CountStmt(cmd[w].table_name) IN
     \E r \in Exec(catalog, st) :
       IF r.ok
       THEN Finish(w, r.cat,
                   [Ok(r.n) EXCEPT !.columns = loc[w].columns], <<>>,
                   <<SentForm(st)>>)
       ELSE Finish(w, r.cat, Err("Failed to get table info"), <<>>,
                   <<SentForm(st)>>)
  /\ UNCHANGED txn

get_table_info(w) == TableInfoPragma(w) \/ TableInfoCount(w)

\* ------------------------------------------------------------------------
\* statistics/mod.rs
\* ------------------------------------------------------------------------
\* statistics/mod.rs:47-51
StatsCount(w) ==
  /\ pc[w] = "stats_count"
  /\ LET st == CountStmt(cmd[w].table_name) IN
     \E r \in Exec(catalog, st) :
       IF r.ok
       THEN Hold(w, "stats_describe", r.cat, [loc[w] EXCEPT !.total_rows = r.n],
                 <<>>, <<SentForm(st)>>)
       ELSE Finish(w, r.cat, Err("DuckDB error"), <<>>, <<SentForm(st)>>)
  /\ UNCHANGED txn

\* statistics/mod.rs:54-60: the cursor over the columns is opened here and
\* read one row per turn of the loop
StatsDescribe(w) ==
  /\ pc[w] = "stats_describe"
  /\ LET st == DescribeTableStmt(cmd[w].table_name) IN
     \E r \in Exec(catalog, st) :
       IF r.ok
       THEN Hold(w, "stats_column", r.cat,
                 [loc[w] EXCEPT !.columns = r.cols, !.i = 1,
                                !.cursor = "open"],
                 <<>>, <<SentForm(st)>>)
       ELSE Finish(w, r.cat, Err("DuckDB error"), <<>>, <<SentForm(st)>>)
  /\ UNCHANGED txn

\* the distinct count read where the null count stands
ColumnStatistics_mut(column, row) ==
  [column_name |-> column.name, count |-> row[1].i, null_count |-> row[3].i,
   distinct_count |-> row[3].i, min |-> wire_value(row[4]),
   max |-> wire_value(row[5]), data_type |-> column.type]

\* statistics/mod.rs:138-169: the row of the statistics query as
\* ColumnStatistics
ColumnStatistics(column, row) ==
  [column_name |-> column.name, count |-> row[1].i, null_count |-> row[2].i,
   distinct_count |-> row[3].i, min |-> wire_value(row[4]),
   max |-> wire_value(row[5]), data_type |-> column.type]

\* statistics/mod.rs:60-72 with 83-173: one turn of the loop over the
\* columns
StatsColumn(w) ==
  /\ pc[w] = "stats_column"
  /\ loc[w].i <= Len(loc[w].columns)
  /\ LET column == loc[w].columns[loc[w].i]
         st == StatsStmt(cmd[w].table_name, column.name, column.type)
     IN  \E r \in Exec(catalog, st) :
           IF r.ok
           THEN Hold(w, "stats_column", r.cat,
                     [loc[w] EXCEPT
                        !.i = @ + 1,
                        !.column_stats =
                          Append(@, ColumnStatistics(column, r.rows[1]))],
                     <<>>, <<SentForm(st)>>)
           ELSE Finish(w, r.cat, Err("DuckDB error"), <<>>, <<SentForm(st)>>)
  /\ UNCHANGED txn

\* statistics/mod.rs:74-79
StatsReturn(w) ==
  /\ pc[w] = "stats_column"
  /\ loc[w].i > Len(loc[w].columns)
  /\ Finish(w, catalog,
            [Ok(loc[w].total_rows) EXCEPT !.rows = loc[w].column_stats,
                                          !.table_name = cmd[w].table_name],
            <<>>, <<>>)
  /\ UNCHANGED txn

get_table_statistics(w) ==
  \/ StatsCount(w)
  \/ StatsDescribe(w)
  \/ StatsColumn(w)
  \/ StatsReturn(w)

\* statistics/mod.rs:177-214
aggregate_column(w) ==
  /\ pc[w] = "aggregate"
  /\ LET st == AggregateStmt(cmd[w].table_name, cmd[w].column_name,
                             cmd[w].function)
     IN  \E r \in Exec(catalog, st) :
           IF r.ok
           THEN Finish(w, r.cat,
                       [Ok(1) EXCEPT !.rows = wire_rows(r.rows)], <<>>,
                       <<SentForm(st)>>)
           ELSE Finish(w, r.cat, Err("DuckDB error"), <<>>, <<SentForm(st)>>)
  /\ UNCHANGED txn

\* statistics/mod.rs:218-237: the result is read as f64, a NULL is an error
calculate_correlation(w) ==
  /\ pc[w] = "corr"
  /\ LET st == CorrelationStmt(cmd[w].table_name, cmd[w].column_x,
                               cmd[w].column_y)
     IN  \E r \in Exec(catalog, st) :
           IF r.ok /\ r.rows[1][1].t # "null"
           THEN Finish(w, r.cat,
                       [Ok(1) EXCEPT !.rows = wire_rows(r.rows)], <<>>,
                       <<SentForm(st)>>)
           ELSE Finish(w, r.cat, Err("DuckDB error"), <<>>, <<SentForm(st)>>)
  /\ UNCHANGED txn

\* statistics/mod.rs:251-253
FilteredViewDrop(w) ==
  /\ pc[w] = "drop_view"
  /\ LET st == DropViewStmt(cmd[w].view_name) IN
     \E r \in Exec(catalog, st) :
       IF r.ok
       THEN Hold(w, "create_view", r.cat, loc[w], <<>>, <<SentForm(st)>>)
       ELSE Finish(w, r.cat, Err("Failed to drop view"), <<>>,
                   <<SentForm(st)>>)
  /\ UNCHANGED txn

\* statistics/mod.rs:256-276
FilteredViewCreate(w) ==
  /\ pc[w] = "create_view"
  /\ LET st == CreateViewStmt(cmd[w].view_name, cmd[w].table_name,
                              cmd[w].conditions)
     IN  \E r \in Exec(catalog, st) :
           IF r.ok
           THEN Finish(w, r.cat,
                       [Ok(0) EXCEPT !.table_name = cmd[w].view_name], <<>>,
                       <<SentForm(st)>>)
           ELSE Finish(w, r.cat, Err("Failed to create filtered view"), <<>>,
                       <<SentForm(st)>>)
  /\ UNCHANGED txn

create_filtered_view(w) == FilteredViewDrop(w) \/ FilteredViewCreate(w)

\* ------------------------------------------------------------------------
\* export_to_csv, export_query_to_csv (export/mod.rs)
\* ------------------------------------------------------------------------
\* export/mod.rs:46-54 and 165-173
ExportCopy(w) ==
  /\ pc[w] = "copy"
  /\ LET st == CopyStmt(cmd[w].table_name) IN
     \E r \in Exec(catalog, st) :
       IF r.ok
       THEN Hold(w, "export_count", r.cat, loc[w], <<>>, <<SentForm(st)>>)
       ELSE Finish(w, r.cat, Err("Export error"), <<>>, <<SentForm(st)>>)
  /\ UNCHANGED txn

\* export/mod.rs:57-67 and 176-186
ExportCount(w) ==
  /\ pc[w] = "export_count"
  /\ LET st == CountStmt(cmd[w].table_name) IN
     \E r \in Exec(catalog, st) :
       IF r.ok
       THEN Finish(w, r.cat, Ok(r.n), <<>>, <<SentForm(st)>>)
       ELSE Finish(w, r.cat, Err("DuckDB error"), <<>>, <<SentForm(st)>>)
  /\ UNCHANGED txn

export_to_csv(w) == ExportCopy(w) \/ ExportCount(w)

\* ------------------------------------------------------------------------
\* The commands the front end sends
\* ------------------------------------------------------------------------
SortColumn(c, asc) == [column |-> c, ascending |-> asc]
FilterCondition(c, op, v) == [column |-> c, operator |-> op, value |-> v]
AggregationSpec(c, f, a) == [column |-> c, function |-> f, alias |-> a]

ImportFile(f) == [NoCmd EXCEPT !.kind = "import_file", !.file_path = f]
ImportFileAs(f, n) ==
  [ImportFile(f) EXCEPT !.has_table_name = TRUE, !.table_name = n]
ReorderRows(t, keys) ==
  [NoCmd EXCEPT !.kind = "reorder_rows", !.table_name = t,
                !.sort_columns = keys]
QueryData(t, l, o) ==
  [NoCmd EXCEPT !.kind = "query_data", !.table_name = t, !.limit = l,
                !.offset = o]
GetTableInfo(t) == [NoCmd EXCEPT !.kind = "get_table_info", !.table_name = t]
GetTableStatistics(t) ==
  [NoCmd EXCEPT !.kind = "get_table_statistics", !.table_name = t]
AggregateColumn(t, c, f) ==
  [NoCmd EXCEPT !.kind = "aggregate_column", !.table_name = t,
                !.column_name = c, !.function = f]
CalculateCorrelation(t, cx, cy) ==
  [NoCmd EXCEPT !.kind = "calculate_correlation", !.table_name = t,
                !.column_x = cx, !.column_y = cy]
FilterData(t, conds, l, o) ==
  [NoCmd EXCEPT !.kind = "filter_data", !.table_name = t,
                !.conditions = conds, !.limit = l, !.offset = o]
CreateFilteredView(t, v, conds) ==
  [NoCmd EXCEPT !.kind = "create_filtered_view", !.table_name = t,
                !.view_name = v, !.conditions = conds]
GroupAndAggregate(t, groups, aggs) ==
  [NoCmd EXCEPT !.kind = "group_and_aggregate", !.table_name = t,
                !.group_by_columns = groups, !.aggregations = aggs]
ExportToCsv(t) == [NoCmd EXCEPT !.kind = "export_to_csv", !.table_name = t]
ExportQueryToCsv(q) ==
  [NoCmd EXCEPT !.kind = "export_query_to_csv", !.table_name = q]
ExportToExcel(t) ==
  [NoCmd EXCEPT !.kind = "export_to_excel", !.table_name = t]

\* one command for every handler that talks to the engine; the commands
\* that only hand a query to execute_query (filter_data,
\* group_and_aggregate, export_to_excel) stand behind query_data here
Commands ==
  { ImportFile(1),
    ImportFileAs(3, u_),
    ReorderRows(t_, <<SortColumn(x_, FALSE), SortColumn(y_, TRUE)>>),
    QueryData(t_, -1, -1),
    GetTableInfo(t_),
    GetTableStatistics(t_),
    AggregateColumn(t_, x_, "sum"),
    CalculateCorrelation(t_, x_, y_),
    CreateFilteredView(t_, v_, <<FilterCondition(x_, "in", JArr(<<JNum(1)>>))>>),
    ExportToCsv(t_) }

\* ------------------------------------------------------------------------
\* The system: worker threads running the commands of the front end
\* ------------------------------------------------------------------------
Init ==
  /\ catalog = EmptyCatalog
  /\ txn = "none"
  /\ mutex = 0
  /\ pc = [w \in Workers |-> "done"]
  /\ cmd = [w \in Workers |-> NoCmd]
  /\ loc = [w \in Workers |-> NoLoc]
  /\ reply = [w \in Workers |-> NoReply]
  /\ emitted = [w \in Workers |-> <<>>]
  /\ sent = [w \in Workers |-> <<>>]
  /\ pre = EmptyCatalog
  /\ lastDone = NoneDone
  /\ pager = NoPager

Next ==
  \E w \in Workers :
    \/ Dispatch(w, Commands)
    \/ Acquire(w)
    \/ import_file(w)
    \/ reorder_rows(w)
    \/ execute_query(w)
    \/ get_table_info(w)
    \/ get_table_statistics(w)
    \/ aggregate_column(w)
    \/ calculate_correlation(w)
    \/ create_filtered_view(w)
    \/ export_to_csv(w)

Spec == Init /\ [][Next]_vars

\* ------------------------------------------------------------------------
\* The front end reading a filter window by window: filter_data at
\* offset 0, L, 2L, ... until a window comes back empty, while no other
\* command runs
\* ------------------------------------------------------------------------
PageFirst(w, Cmds) ==
  /\ ~pager.active
  /\ \A v \in Workers : pc[v] = "done"
  /\ \E c \in Cmds :
       cmd' = [cmd EXCEPT ![w] = c]
  /\ pc' = [pc EXCEPT ![w] = "lock"]
  /\ reply' = [reply EXCEPT ![w] = NoReply]
  /\ emitted' = [emitted EXCEPT ![w] = <<>>]
  /\ sent' = [sent EXCEPT ![w] = <<>>]
  /\ pager' = [active |-> TRUE, w |-> w, acc |-> <<>>]
  /\ UNCHANGED <<catalog, txn, mutex, loc, pre, lastDone>>

PageNext(w) ==
  /\ pager.active
  /\ pager.w = w
  /\ pc[w] = "done"
  /\ reply[w].status = "ok"
  /\ reply[w].rows # <<>>
  /\ cmd' = [cmd EXCEPT ![w].offset = @ + cmd[w].limit]
  /\ pc' = [pc EXCEPT ![w] = "lock"]
  /\ reply' = [reply EXCEPT ![w] = NoReply]
  /\ sent' = [sent EXCEPT ![w] = <<>>]
  /\ pager' = [pager EXCEPT !.acc = @ \o reply[w].rows]
  /\ UNCHANGED <<catalog, txn, mutex, loc, emitted, pre, lastDone>>

PageLast(w) ==
  /\ pager.active
  /\ pager.w = w
  /\ pc[w] = "done"
  /\ reply[w].status = "err" \/ reply[w].rows = <<>>
  /\ pager' = NoPager
  /\ cmd' = [cmd EXCEPT ![w] = NoCmd]
  /\ reply' = [reply EXCEPT ![w] = NoReply]
  /\ sent' = [sent EXCEPT ![w] = <<>>]
  /\ UNCHANGED <<catalog, txn, mutex, pc, loc, emitted, pre, lastDone>>

\* ------------------------------------------------------------------------
\* Imports alone: every file, under the derived and under a given name
\* ------------------------------------------------------------------------
ImportCommands ==
  { ImportFile(1), ImportFile(3), ImportFile(4), ImportFile(5),
    ImportFile(6), ImportFile(8), ImportFileAs(2, t_) }

NextImport ==
  \E w \in Workers :
    \/ Dispatch(w, ImportCommands)
    \/ Acquire(w)
    \/ import_file(w)

SpecImport == Init /\ [][NextImport]_vars

\* ------------------------------------------------------------------------
\* Reordering an imported table
\* ------------------------------------------------------------------------
ReorderCommands ==
  { ImportFile(1),
    ImportFile(3),
    ReorderRows(t_, <<SortColumn(x_, TRUE)>>),
    ReorderRows(t_, <<SortColumn(x_, FALSE)>>),
    ReorderRows(t_, <<SortColumn(y_, FALSE), SortColumn(x_, TRUE)>>),
    ReorderRows(t_, <<SortColumn(x_, TRUE), SortColumn(y_, FALSE)>>),
    ReorderRows(t_, <<SortColumn(<<"z">>, TRUE)>>),
    ReorderRows(t_, <<>>) }

NextReorder ==
  \E w \in Workers :
    \/ Dispatch(w, ReorderCommands)
    \/ Acquire(w)
    \/ import_file(w)
    \/ reorder_rows(w)

SpecReorder == Init /\ [][NextReorder]_vars

\* ------------------------------------------------------------------------
\* Filters: windows read page by page, views, and operators outside the
\* documented set
\* ------------------------------------------------------------------------
MaxWindow == 2

FilterConditions ==
  { <<>>,
    <<FilterCondition(x_, ">=", JNum(2))>>,
    <<FilterCondition(x_, "=", JNum(1)), FilterCondition(y_, "!=", JNum(1))>>,
    <<FilterCondition(x_, "in", JArr(<<JNum(1), JNum(2)>>))>>,
    <<FilterCondition(y_, "<", JNum(3))>>,
    <<FilterCondition(y_, "=", JNull)>> }

TextConditions ==
  { <<FilterCondition(y_, "like", JStr(<<"a", "%">>))>>,
    <<FilterCondition(y_, "=", JStr(<<"a", "'">>))>>,
    <<FilterCondition(y_, "IN", JArr(<<JStr(<<"b">>), JStr(<<"c">>)>>))>> }

PagedFilters ==
  {FilterData(t_, c, l, 0) : c \in FilterConditions, l \in 1..MaxWindow}
  \cup {FilterData(u_, c, l, 0) : c \in TextConditions, l \in 1..MaxWindow}

FilterCommands == { ImportFile(1), ImportFile(2), ImportFile(3) }

NextFilter ==
  \E w \in Workers :
    \/ Dispatch(w, FilterCommands)
    \/ PageFirst(w, PagedFilters)
    \/ PageNext(w)
    \/ PageLast(w)
    \/ Acquire(w)
    \/ import_file(w)
    \/ execute_query(w)

SpecFilter == Init /\ [][NextFilter]_vars

\* ------------------------------------------------------------------------
\* Filters and views under operators inside and outside the documented
\* set, and a column name with a double quote in it
\* ------------------------------------------------------------------------
OperatorCommands ==
  { ImportFile(1),
    ImportFile(3),
    FilterData(t_, <<FilterCondition(x_, ">=", JNum(2))>>, -1, -1),
    FilterData(t_, <<FilterCondition(x_, "<>", JNum(2))>>, -1, -1),
    FilterData(t_, <<FilterCondition(x_, "~", JNum(2))>>, -1, -1),
    FilterData(t_, <<FilterCondition(<<"x", "\"">>, "=", JNum(2))>>, -1, -1),
    CreateFilteredView(t_, v_, <<FilterCondition(x_, "<=", JNum(1))>>),
    CreateFilteredView(t_, v_, <<FilterCondition(x_, "<>", JNum(1))>>) }

NextOperator ==
  \E w \in Workers :
    \/ Dispatch(w, OperatorCommands)
    \/ Acquire(w)
    \/ import_file(w)
    \/ execute_query(w)
    \/ create_filtered_view(w)

SpecOperator == Init /\ [][NextOperator]_vars

\* ------------------------------------------------------------------------
\* Aggregations under several function names
\* ------------------------------------------------------------------------
AggregateCommands ==
  { ImportFile(1),
    ImportFile(3),
    AggregateColumn(t_, x_, "sum"),
    AggregateColumn(t_, x_, "median"),
    AggregateColumn(t_, x_, "drop"),
    GroupAndAggregate(t_, <<y_>>, <<AggregationSpec(x_, "MAX", <<"m">>)>>),
    GroupAndAggregate(t_, <<>>, <<AggregationSpec(x_, "MEDIAN", <<"m">>)>>) }

NextAggregate ==
  \E w \in Workers :
    \/ Dispatch(w, AggregateCommands)
    \/ Acquire(w)
    \/ import_file(w)
    \/ execute_query(w)
    \/ aggregate_column(w)

SpecAggregate == Init /\ [][NextAggregate]_vars

\* ------------------------------------------------------------------------
\* The table name of an import, for every name up to MaxNameLen
\* ------------------------------------------------------------------------
NameChars == {"a", "7", "_", "!", "\"", "U+00E9"}

Names == UNION {[1..n -> NameChars] : n \in 0..MaxNameLen}

InitSanitize ==
  /\ catalog = EmptyCatalog
  /\ txn = "none"
  /\ mutex = 0
  /\ \E n \in Names :
       cmd = [w \in Workers |-> IF w = 1 THEN ImportFileAs(1, n) ELSE NoCmd]
  /\ pc = [w \in Workers |-> IF w = 1 THEN "start" ELSE "done"]
  /\ loc = [w \in Workers |-> NoLoc]
  /\ reply = [w \in Workers |-> NoReply]
  /\ emitted = [w \in Workers |-> <<>>]
  /\ sent = [w \in Workers |-> <<>>]
  /\ pre = EmptyCatalog
  /\ lastDone = NoneDone
  /\ pager = NoPager

NextSanitize == \E w \in Workers : ImportStart(w)

SpecSanitize == InitSanitize /\ [][NextSanitize]_vars

\* ------------------------------------------------------------------------
\* Statistics of a table that imports and reorders replace meanwhile
\* ------------------------------------------------------------------------
StatsCommands ==
  { ImportFile(3),
    ImportFileAs(2, t_),
    ReorderRows(t_, <<SortColumn(x_, TRUE)>>),
    GetTableStatistics(t_),
    QueryData(t_, -1, -1) }

NextStats ==
  \E w \in Workers :
    \/ Dispatch(w, StatsCommands)
    \/ Acquire(w)
    \/ import_file(w)
    \/ reorder_rows(w)
    \/ get_table_statistics(w)
    \/ execute_query(w)

SpecStats == Init /\ [][NextStats]_vars

\* ------------------------------------------------------------------------
\* Imports that fail, and the imports that follow them
\* ------------------------------------------------------------------------
RetryCommands ==
  { ImportFile(1), ImportFile(3), ImportFile(7), ImportFileAs(5, t_) }

NextRetry ==
  \E w \in Workers :
    \/ Dispatch(w, RetryCommands)
    \/ Acquire(w)
    \/ import_file(w)

SpecRetry == Init /\ [][NextRetry]_vars

\* ------------------------------------------------------------------------
\* Reordering t while the name t_sorted_temp is taken, by a table the
\* caller imported or by a view
\* ------------------------------------------------------------------------
TempCommands ==
  { ImportFile(1),
    ImportFileAs(3, temp_table(t_)),
    CreateFilteredView(t_, temp_table(t_), <<>>),
    ReorderRows(t_, <<SortColumn(x_, TRUE)>>) }

NextTemp ==
  \E w \in Workers :
    \/ Dispatch(w, TempCommands)
    \/ Acquire(w)
    \/ import_file(w)
    \/ create_filtered_view(w)
    \/ reorder_rows(w)

SpecTemp == Init /\ [][NextTemp]_vars

\* ------------------------------------------------------------------------
\* Commands that succeed and commands that fail, under a fair scheduler:
\* a thread that can take a step of its command takes it, and a thread
\* waiting for the lock gets it if the lock keeps coming free
\* ------------------------------------------------------------------------
FairCommands ==
  { ReorderRows(t_, <<SortColumn(x_, FALSE), SortColumn(y_, TRUE)>>),
    ReorderRows(t_, <<SortColumn(<<"z">>, TRUE)>>),
    GetTableStatistics(t_),
    GetTableStatistics(u_) }

\* table t as the import of t.csv leaves it
InitFair ==
  /\ catalog = With(EmptyCatalog, t_, TableObj(Files[1].cols, Files[1].rows))
  /\ txn = "none"
  /\ mutex = 0
  /\ pc = [w \in Workers |-> "done"]
  /\ cmd = [w \in Workers |-> NoCmd]
  /\ loc = [w \in Workers |-> NoLoc]
  /\ reply = [w \in Workers |-> NoReply]
  /\ emitted = [w \in Workers |-> <<>>]
  /\ sent = [w \in Workers |-> <<>>]
  /\ pre = EmptyCatalog
  /\ lastDone = NoneDone
  /\ pager = NoPager

Step(w) == reorder_rows(w) \/ get_table_statistics(w)

NextFair ==
  \E w \in Workers :
    \/ Dispatch(w, FairCommands)
    \/ Acquire(w)
    \/ reorder_rows(w)
    \/ get_table_statistics(w)

SpecFair ==
  /\ InitFair
  /\ [][NextFair]_vars
  /\ \A w \in Workers : WF_vars(Step(w)) /\ SF_vars(Acquire(w))

\* ------------------------------------------------------------------------
\* Properties
\* ------------------------------------------------------------------------
Returns(w, kind) ==
  cmd[w].kind = kind /\ pc[w] # "done" /\ pc'[w] = "done"

Count(seq, e) == Cardinality({i \in 1..Len(seq) : seq[i] = e})
Range(seq) == {seq[i] : i \in 1..Len(seq)}
SameBag(s1, s2) ==
  \A e \in Range(s1) \cup Range(s2) : Count(s1, e) = Count(s2, e)

\* C1: a command sends statements to the engine only while it holds the
\* session mutex, at most one command is at a step that talks to the
\* engine, and the mutex once taken is given up only when the command
\* returns.
C1_EngineSerialised ==
  /\ [](/\ \A w \in Workers :
             pc[w] \notin {"start", "lock", "done"} => mutex = w
        /\ Cardinality({w \in Workers :
                          pc[w] \notin {"start", "lock", "done"}}) <= 1)
  /\ [][\A w \in Workers :
          /\ (sent'[w] # sent[w] /\ sent'[w] # <<>>) => mutex = w
          /\ (mutex = w /\ mutex' # w) => (pc'[w] = "done" /\ mutex' = 0)]_vars

\* a command is between two engine calls while another waits for the lock
C1_Witness ==
  \E w, v \in Workers :
    /\ w # v
    /\ mutex = w
    /\ sent[w] # <<>>
    /\ pc[w] \notin {"start", "lock", "done"}
    /\ pc[v] = "lock"

\* the rows an import of the file puts into the table
ImportedRows(f) ==
  IF f.sheets = <<>> THEN f.rows
  ELSE [i \in 1..(Len(f.sheets[1]) - 1) |->
          [j \in 1..Len(f.sheets[1][i + 1]) |->
             LET cell == f.sheets[1][i + 1][j] IN
             IF cell.t = "null" THEN Null ELSE TextV(cell_to_string(cell))]]

\* C2: when import_file returns success, the table it names exists, holds
\* as many rows as the reply's rows_imported, and holds the rows of the
\* file and no others (the rows of an earlier table of that name are gone).
C2_ImportReplacesTable ==
  [][\A w \in Workers :
       (Returns(w, "import_file") /\ reply'[w].status = "ok") =>
         LET T == reply'[w].table_name IN
         /\ T \in DOMAIN catalog'
         /\ catalog'[T].kind = "table"
         /\ Len(catalog'[T].rows) = reply'[w].n
         /\ catalog'[T].rows = ImportedRows(Files[cmd[w].file_path])]_vars

\* an import has replaced a table that held other rows, and has returned
C2_Witness ==
  \E w \in Workers :
    /\ cmd[w].kind = "import_file"
    /\ pc[w] = "done"
    /\ reply[w].status = "ok"
    /\ reply[w].n = 3
    /\ lastDone.ok
    /\ lastDone.file_path = cmd[w].file_path
    /\ \E v \in Workers :
         /\ v # w
         /\ cmd[v].kind = "import_file"
         /\ cmd[v].file_path # cmd[w].file_path
         /\ reply[v].status = "ok"
         /\ reply[v].table_name = reply[w].table_name

\* r1 may stand before r2 under the sort keys: at the first key where
\* they differ, r1's value comes first in the key's direction (a NULL may
\* stand on either side)
MayPrecede(cols, sort_columns, r1, r2) ==
  \/ \A k \in 1..Len(sort_columns) :
       r1[ColIndex(cols, sort_columns[k].column)]
         = r2[ColIndex(cols, sort_columns[k].column)]
  \/ \E k \in 1..Len(sort_columns) :
       LET v1 == r1[ColIndex(cols, sort_columns[k].column)]
           v2 == r2[ColIndex(cols, sort_columns[k].column)]
       IN  /\ v1 # v2
           /\ \A j \in 1..(k - 1) :
                r1[ColIndex(cols, sort_columns[j].column)]
                  = r2[ColIndex(cols, sort_columns[j].column)]
           /\ \/ v1.t = "null"
              \/ v2.t = "null"
              \/ IF sort_columns[k].ascending
                 THEN ValueLess(v1, v2) ELSE ValueLess(v2, v1)

\* C3: when reorder_rows returns success, the table holds the rows it
\* held when the command took the lock, each as often as before, and in
\* the order of the sort keys, each key in its direction.
C3_ReorderPermutesAndSorts ==
  [][\A w \in Workers :
       (Returns(w, "reorder_rows") /\ reply'[w].status = "ok") =>
         LET T == cmd[w].table_name IN
         /\ T \in DOMAIN pre
         /\ T \in DOMAIN catalog'
         /\ catalog'[T].kind = "table"
         /\ catalog'[T].cols = pre[T].cols
         /\ SameBag(catalog'[T].rows, pre[T].rows)
         /\ \A i, j \in 1..Len(catalog'[T].rows) :
              i < j => MayPrecede(catalog'[T].cols, cmd[w].sort_columns,
                                  catalog'[T].rows[i], catalog'[T].rows[j])]_vars

\* a reorder with a descending key has returned success and the table
\* is not in the order of the file
C3_Witness ==
  \E w \in Workers :
    /\ cmd[w].kind = "reorder_rows"
    /\ pc[w] = "done"
    /\ reply[w].status = "ok"
    /\ \E k \in 1..Len(cmd[w].sort_columns) : ~cmd[w].sort_columns[k].ascending
    /\ mutex = 0
    /\ t_ \in DOMAIN catalog
    /\ catalog[t_].rows # Files[1].rows

\* C4: the rows_imported of the progress events of one import_file call
\* never decrease, in the order the events are emitted.
C4_ProgressNonDecreasing ==
  \A w \in Workers :
    \A i, j \in 1..Len(emitted[w]) :
      i < j => emitted[w][i].rows_imported <= emitted[w][j].rows_imported

\* a workbook import has emitted a batch event and its last event
C4_Witness ==
  \E w \in Workers :
    /\ pc[w] = "done"
    /\ reply[w].status = "ok"
    /\ \E i, j \in 1..Len(emitted[w]) :
         /\ emitted[w][i].status = "Importing..."
         /\ emitted[w][j].status = "Finalizing import..."
         /\ emitted[w][i].rows_imported < emitted[w][j].rows_imported

\* the name the caller gave, or else the stem of the file
RequestedName(c) ==
  IF c.has_table_name THEN c.table_name ELSE Files[c.file_path].stem

\* C5: the sanitised name an import uses as its table name is non-empty,
\* is made of [A-Za-z0-9_] only, neither starts nor ends with an
\* underscore, and is imported_data when the name given has no letter or
\* digit to keep.
C5_SanitisedName ==
  \A w \in Workers :
    (cmd[w].kind = "import_file" /\ pc[w] = "lock") =>
      LET n == loc[w].name IN
      /\ n # <<>>
      /\ CharsOf(n) \subseteq IdentChars
      /\ Head(n) # "_"
      /\ n[Len(n)] # "_"
      /\ (CharsOf(RequestedName(cmd[w])) \cap (IdentChars \ {"_"}) = {}) =>
           n = <<"i","m","p","o","r","t","e","d","_","d","a","t","a">>

\* the identifiers a command was given
GivenIdentifiers(c) ==
  {c.table_name, c.view_name, c.column_name, c.column_x, c.column_y}
  \cup {c.sort_columns[i].column : i \in 1..Len(c.sort_columns)}
  \cup {c.conditions[i].column : i \in 1..Len(c.conditions)}
  \cup Range(c.group_by_columns)
  \cup {c.aggregations[i].column : i \in 1..Len(c.aggregations)}
  \cup {c.aggregations[i].alias : i \in 1..Len(c.aggregations)}

\* C6: every identifier in every statement sent to the engine stands in
\* double quotes and holds no double quote, and a command given an
\* identifier with a double quote in it sends nothing and returns an error.
C6_IdentifiersQuoted ==
  \A w \in Workers :
    /\ \A i \in 1..Len(sent[w]) :
         \A j \in 1..Len(sent[w][i].pieces) :
           /\ sent[w][i].pieces[j].quoted
           /\ "\"" \notin CharsOf(sent[w][i].pieces[j].text)
    /\ (\E n \in GivenIdentifiers(cmd[w]) : "\"" \in CharsOf(n)) =>
         /\ sent[w] = <<>>
         /\ pc[w] = "done" => reply[w].status = "err"

AllowedOperators == {"=", "!=", ">", "<", ">=", "<=", "LIKE", "IN"}

\* C7: filter_data and create_filtered_view given a condition whose
\* operator is not one of =, !=, >, <, >=, <=, LIKE, IN send no statement
\* and return an error; no statement sent carries another operator.
C7_OperatorsRestricted ==
  \A w \in Workers :
    cmd[w].kind \in {"filter_data", "create_filtered_view"} =>
      /\ \A i \in 1..Len(sent[w]) :
           Range(sent[w][i].ops) \subseteq AllowedOperators
      /\ (\E i \in 1..Len(cmd[w].conditions) :
            to_uppercase(cmd[w].conditions[i].operator)
              \notin AllowedOperators) =>
           /\ sent[w] = <<>>
           /\ pc[w] = "done" => reply[w].status = "err"

AllowedFunctions == {"SUM", "AVG", "COUNT", "MIN", "MAX", "STDDEV", "VAR"}

RequestedFunctions(c) ==
  IF c.kind = "aggregate_column" THEN {c.function}
  ELSE {c.aggregations[i].function : i \in 1..Len(c.aggregations)}

\* C8: aggregate_column and group_and_aggregate write the function name
\* in upper case and only when it is one of SUM, AVG, COUNT, MIN, MAX,
\* STDDEV, VAR; given any other name they send nothing and return an error.
C8_FunctionsRestricted ==
  \A w \in Workers :
    cmd[w].kind \in {"aggregate_column", "group_and_aggregate"} =>
      /\ \A i \in 1..Len(sent[w]) :
           Range(sent[w][i].funcs) \subseteq AllowedFunctions
      /\ (\E f \in RequestedFunctions(cmd[w]) :
            to_uppercase(f) \notin AllowedFunctions) =>
           /\ sent[w] = <<>>
           /\ pc[w] = "done" => reply[w].status = "err"

JsonValue(j) ==
  CASE j.t = "number" -> IntV(j.i)
    [] j.t = "string" -> TextV(j.s)
    [] OTHER          -> Null

\* the row satisfies the condition (a comparison with NULL does not hold)
Satisfies(cols, row, c) ==
  LET v  == row[ColIndex(cols, c.column)]
      op == to_uppercase(c.operator)
      l  == JsonValue(c.value)
  IN  /\ v.t # "null"
      /\ IF op = "IN"
         THEN \E i \in 1..Len(c.value.a) : JsonValue(c.value.a[i]) = v
         ELSE /\ l.t # "null"
              /\ CASE op = "="    -> v = l
                   [] op = "!="   -> v # l
                   [] op = ">"    -> ValueLess(l, v)
                   [] op = "<"    -> ValueLess(v, l)
                   [] op = ">="   -> v = l \/ ValueLess(l, v)
                   [] op = "<="   -> v = l \/ ValueLess(v, l)
                   [] OTHER       -> LikeMatch(v.s, l.s)

MatchingRows(T, conditions) ==
  SelectSeq(T.rows,
            LAMBDA r : \A i \in 1..Len(conditions) :
                         Satisfies(T.cols, r, conditions[i]))

\* C10: the windows filter_data returns at offsets 0, L, 2L, ... over an
\* unchanged table never hold a matching row more often than the table
\* does, and when the empty window is reached they hold, together,
\* exactly the rows of the table that satisfy every condition.
C10_WindowsCoverMatches ==
  (pager.active /\ pc[pager.w] = "done" /\ reply[pager.w].status = "ok") =>
    LET c    == cmd[pager.w]
        got  == pager.acc \o reply[pager.w].rows
        want == wire_rows(MatchingRows(catalog[c.table_name], c.conditions))
    IN  /\ \A e \in Range(got) : Count(got, e) <= Count(want, e)
        /\ reply[pager.w].rows = <<>> => SameBag(got, want)

\* more than one window was needed and the filter left rows out
C10_Witness ==
  /\ pager.active
  /\ pc[pager.w] = "done"
  /\ reply[pager.w].status = "ok"
  /\ reply[pager.w].rows = <<>>
  /\ Len(pager.acc) > cmd[pager.w].limit
  /\ Len(pager.acc) < Len(catalog[cmd[pager.w].table_name].rows)

\* C11: in every reply of get_table_statistics, for each column the null
\* count and the count add up to the total number of rows, whatever
\* imports and reorders of the table run beside it.
C11_CountsAddUp ==
  \A w \in Workers :
    ( /\ cmd[w].kind = "get_table_statistics"
      /\ pc[w] = "done"
      /\ reply[w].status = "ok" ) =>
        \A i \in 1..Len(reply[w].rows) :
          reply[w].rows[i].null_count + reply[w].rows[i].count = reply[w].n

\* statistics with a column holding a NULL have been returned while an
\* import of the table waits for the lock or runs
C11_Witness ==
  \E w, v \in Workers :
    /\ cmd[w].kind = "get_table_statistics"
    /\ pc[w] = "done"
    /\ reply[w].status = "ok"
    /\ \E i \in 1..Len(reply[w].rows) : reply[w].rows[i].null_count > 0
    /\ cmd[v].kind = "import_file"
    /\ pc[v] # "done"

\* C12: reorder_rows given no sort key returns "No sort columns
\* specified", sends no statement to the engine, never takes the lock,
\* and leaves every table as it was.
C12_EmptyKeysRejected ==
  /\ [](\A w \in Workers :
          (cmd[w].kind = "reorder_rows" /\ cmd[w].sort_columns = <<>>) =>
            /\ sent[w] = <<>>
            /\ mutex # w
            /\ pc[w] \in {"start", "done"})
  /\ [][\A w \in Workers :
          (Returns(w, "reorder_rows") /\ cmd[w].sort_columns = <<>>) =>
            /\ reply'[w].status = "err"
            /\ reply'[w].error = "No sort columns specified"
            /\ sent'[w] = <<>>
            /\ catalog' = catalog
            /\ txn' = txn]_vars

\* a reorder without keys has returned its error while the table exists
C12_Witness ==
  \E w \in Workers :
    /\ cmd[w].kind = "reorder_rows"
    /\ cmd[w].sort_columns = <<>>
    /\ pc[w] = "done"
    /\ reply[w].error = "No sort columns specified"
    /\ cmd[w].table_name \in DOMAIN catalog
    /\ temp_table(cmd[w].table_name) \notin DOMAIN catalog

SupportedExtensions == {"csv", "xls", "xlsx", "xlsm", "xlsb"}

Unsupported(c) ==
  to_lowercase(Files[c.file_path].ext) \notin SupportedExtensions

\* C13: import_file of a path whose extension, in lower case, is none of
\* csv, xls, xlsx, xlsm, xlsb returns the error "Unsupported file format",
\* emits no progress event, sends no statement and leaves the engine as
\* it was, a table of the derived name included.
C13_UnsupportedRejected ==
  /\ [](\A w \in Workers :
          (cmd[w].kind = "import_file" /\ Unsupported(cmd[w])) =>
            /\ emitted[w] = <<>>
            /\ sent[w] = <<>>
            /\ mutex # w)
  /\ [][\A w \in Workers :
          (Returns(w, "import_file") /\ Unsupported(cmd[w])) =>
            /\ reply'[w].status = "err"
            /\ reply'[w].error = "Unsupported file format"
            /\ emitted'[w] = <<>>
            /\ catalog' = catalog
            /\ txn' = txn]_vars

\* the import of t.txt has been refused while table t exists
C13_Witness ==
  \E w \in Workers :
    /\ cmd[w].kind = "import_file"
    /\ Unsupported(cmd[w])
    /\ pc[w] = "done"
    /\ reply[w].error = "Unsupported file format"
    /\ derived_table_name(cmd[w]) \in DOMAIN catalog

\* a file an import can take in whole
ValidFile(f) ==
  /\ f.readable
  /\ to_lowercase(f.ext) \in SupportedExtensions
  /\ f.bad_row = 0
  /\ f.cols # <<>> \/ (f.sheets # <<>> /\ f.sheets[1] # <<>>)

\* C14: no command returns with a transaction left open, and after an
\* import into a table has failed in the engine, the next import of a
\* valid file under that name succeeds and leaves the table with exactly
\* the rows of that file.
C14_FailedImportRecovers ==
  /\ [](mutex = 0 => txn = "none")
  /\ [][\A w \in Workers :
          ( /\ Returns(w, "import_file")
            /\ mutex = w
            /\ lastDone.kind = "import_file"
            /\ ~lastDone.ok
            /\ lastDone.name = loc[w].name
            /\ ValidFile(Files[cmd[w].file_path]) ) =>
              /\ reply'[w].status = "ok"
              /\ loc[w].name \in DOMAIN catalog'
              /\ catalog'[loc[w].name].rows
                   = ImportedRows(Files[cmd[w].file_path])]_vars

Emits(w) == emitted'[w] # emitted[w] /\ emitted'[w] # <<>>

\* C15: a command emits a progress event only while it holds the session
\* mutex, and never while another import that has begun to emit holds it.
C15_EventsUnderMutex ==
  [][\A w \in Workers :
       Emits(w) =>
         /\ mutex = w
         /\ ~\E v \in Workers :
               v # w /\ mutex = v /\ cmd[v].kind = "import_file"
                     /\ emitted[v] # <<>>]_vars

Sends(w) == sent'[w] # sent[w] /\ sent'[w] # <<>>

\* C16: no command sends a statement to the engine while a cursor it
\* opened is open and not yet read to its end.
C16_CursorDrained ==
  [][\A w \in Workers : Sends(w) => loc[w].cursor # "open"]_vars

ReorderSteps == {"drop_temp", "create_sorted", "drop_original", "rename"}

\* the statement of the step of reorder_rows the command stands at
StepStmt(w) ==
  CASE pc[w] = "drop_temp"     -> ReorderDropTempStmt(cmd[w].table_name)
    [] pc[w] = "create_sorted" ->
         ReorderCreateStmt(cmd[w].table_name, cmd[w].sort_columns)
    [] pc[w] = "drop_original" -> ReorderDropStmt(cmd[w].table_name)
    [] OTHER                   -> ReorderRenameStmt(cmd[w].table_name)

\* C17: when the engine fails one of the four steps of reorder_rows, the
\* command returns an error at that step and runs no later step; it
\* returns success from the last step only.
C17_StepFailureStops ==
  [][\A w \in Workers :
       ( /\ cmd[w].kind = "reorder_rows"
         /\ pc[w] \in ReorderSteps
         /\ pc'[w] # pc[w] ) =>
           /\ (\A r \in Exec(catalog, StepStmt(w)) : ~r.ok) =>
                (pc'[w] = "done" /\ reply'[w].status = "err")
           /\ (pc'[w] = "done" /\ reply'[w].status = "ok") =>
                pc[w] = "rename"]_vars

\* C20: when reorder_rows of T returns, with success or with an error,
\* every other table that was there when it took the lock is still there
\* with the same rows.
C20_OnlyTargetChanged ==
  [][\A w \in Workers :
       (Returns(w, "reorder_rows") /\ mutex = w) =>
         \A U \in DOMAIN pre \ {cmd[w].table_name} :
           pre[U].kind = "table" =>
             /\ U \in DOMAIN catalog'
             /\ catalog'[U].kind = "table"
             /\ catalog'[U].rows = pre[U].rows]_vars

Completions(w) ==
  {i \in 1..Len(emitted[w]) : emitted[w][i].status = "Import complete!"}

\* C18: an importFile call emits an "Import complete!" event exactly when
\* it returns success; the event is the last one of the call and its
\* rows_imported and total_rows equal the rowsImported of the reply.
C18_CompleteIsLast ==
  \A w \in Workers :
    cmd[w].kind = "import_file" =>
      /\ (pc[w] = "done" /\ reply[w].status = "ok") <=> Completions(w) # {}
      /\ \A i \in Completions(w) :
           /\ i = Len(emitted[w])
           /\ emitted[w][i].rows_imported = reply[w].n
           /\ emitted[w][i].total_rows = reply[w].n

\* C19: a command that has returned holds no lock, and under a fair
\* scheduler a command waiting for the lock gets it, runs and returns,
\* whatever commands succeed or fail beside it.
C19_LockReleased ==
  /\ [](\A w \in Workers : pc[w] = "done" => mutex # w)
  /\ \A w \in Workers : (pc[w] = "lock") ~> (pc[w] = "done")

\* a command waits for the lock another holds, after a command has failed
C19_Witness ==
  \E w, v \in Workers :
    /\ w # v
    /\ pc[w] = "lock"
    /\ mutex = v
    /\ pc[v] \notin {"start", "lock", "done"}
    /\ reply[w].status = "none"
    /\ cmd[v].kind = "reorder_rows"
    /\ cmd[v].table_name \notin DOMAIN catalog

\* C21: when import_file returns an error after it has taken the lock, a
\* table that existed under the target name when the call began still
\* exists with the rows it had.
C21_FailedImportKeepsTable ==
  [][\A w \in Workers :
       ( /\ Returns(w, "import_file")
         /\ mutex = w
         /\ reply'[w].status = "err"
         /\ loc[w].name \in DOMAIN pre
         /\ pre[loc[w].name].kind = "table" ) =>
           /\ loc[w].name \in DOMAIN catalog'
           /\ catalog'[loc[w].name].kind = "table"
           /\ catalog'[loc[w].name].rows = pre[loc[w].name].rows]_vars

====
